---- MODULE Spec2Model ----
(***************************************************************************)
(* A model of the Tosho manga aggregation library: the source registry    *)
(* and its fan-out search (src/src/source.rs, src/src/search.rs), the     *)
(* per-source rate limiter and the retrying HTTP client                   *)
(* (src/src/net/mod.rs), chapter download (src/src/source.rs,             *)
(* src/src/sources/kissmanga.rs) and the adapters' search and chapter     *)
(* listing (src/src/sources/*.rs).                                        *)
(*                                                                         *)
(* Strings that the code formats or scans are sequences of pieces (one    *)
(* piece per character where the code looks at characters), so that       *)
(* format!, join and replace are computed and not assumed.                *)
(***************************************************************************)
EXTENDS Integers, Sequences, FiniteSets, TLC

VARIABLES
    \* ---- Sources (src/src/source.rs:380-383) and one running search ----
    sources,     \* Vec<Box<dyn Source>>: the adapters, each shown by its id()
    by_id,       \* HashMap<String, usize>: id -> 0-based index into sources
    call,        \* the search operation in flight: "none", "group", "flat", "from"
    target,      \* from_source: the source_id argument
    raws,        \* per adapter: what its search() returned ("pending" before)
    futures,     \* per adapter: the output of its future in search_all_grouped
    completed,   \* the adapters' positions in the order their futures completed
    ret,         \* the value the finished operation returned
    \* ---- RateLimiter (src/src/net/mod.rs:67-70) and the tasks calling wait ----
    clock,        \* Instant::now(), in units of 100 ms
    last_request, \* Mutex<HashMap<String, Instant>>
    wpc,          \* per task: where it is in wait(): "idle", "check", "sleep", "record"
    wkey,         \* per task: the source_id argument of its wait()
    wnow,         \* per task: the local `now` of its wait()
    wdeadline,    \* per task: when its tokio::time::sleep ends
    wslept,       \* per task: whether its wait() went through the sleep
    prev_return,  \* per key: when the last but one wait(key) returned (-1: never)
    last_return,  \* per key: when the last wait(key) returned (-1: never)
    \* ---- HttpClient (src/src/net/mod.rs:223-228) and one get(url) call ----
    max_retries,  \* HttpClient.max_retries
    hpc,          \* where get() is: "idle", "wait", "send", "backoff", "done"
    attempts,     \* the local `attempts` of get()
    requests,     \* the responses (or transport errors) the call's requests got
    hwaits,       \* how often the call went through rate_limiter.wait
    hsleeps,      \* the sleeps of the call between requests, in seconds
    hret,         \* what get() returned
    \* ---- one download_chapter(chapter_id, output_dir) call and the disk ----
    dimpl,        \* "default" (trait Source) or "kissmanga" (the override)
    dpc,          \* where the call is: "idle", "pages", "loop", "done"
    chapter_id,   \* the chapter_id argument, a string of characters
    pages,        \* the page URLs get_pages returned
    fetched,      \* how the GET of each page handled so far ended
    dirs,         \* the directories on disk, each a path (sequence of names)
    files,        \* the files written, each a path
    page_starts,  \* when the GET of each page handled so far was sent
    dret,         \* what download_chapter returned
    \* ---- one call of an adapter's search or get_chapters ----
    adapter,      \* the adapter called: "mgd", "kmg" or "mdr"
    aop,          \* the method called: "none", "search", "chapters"
    apc,          \* where the call is: "idle", "feed" and "feed_sent" (in the loop of
                  \* fetch_all_chapters), "done"
    params_limit, \* params.limit of a search, None or Some(n)
    manga_id,     \* the manga_id argument of get_chapters
    offset,       \* fetch_all_chapters: the offset of the next feed request
    all_chapters, \* fetch_all_chapters: the chapters collected so far
    feed_requests,\* how many feed requests the call has made
    discovered,   \* what the call found, in the order found, before the
                  \* limit or the sort
    url_index,    \* KissManga get_pages: which of possible_urls is tried
    fetch_failures, \* the errors the fetches of the call ended with, in order
    aret,         \* what the call returned
    \* ---- one call of a helper function (download.rs, search.rs) ----
    ucall,        \* the function called: "none", "sanitize_filename", ...
    uarg,         \* its argument
    uout,         \* what it returned
    uout2,        \* sanitize_filename: what it returned for uout
    \* ---- AppState (src/src/tui.rs:54-58) and the calls on it ----
    current_page,
    items_per_page,
    total_items,
    overflow_checks, \* whether the build panics on integer overflow (debug)
                     \* or wraps (release)
    tcall,        \* the last call on the AppState: "none", "configure",
                  \* "set_total_items", "next_page", "previous_page"
    page_before,  \* current_page before that call
    tret          \* what that call returned, or that it panicked

engineVars == <<sources, by_id, call, target, raws, futures, completed, ret>>

limiterVars == <<clock, last_request, wpc, wkey, wnow, wdeadline, wslept,
                 prev_return, last_return>>

httpVars == <<max_retries, hpc, attempts, requests, hwaits, hsleeps, hret>>

downloadVars == <<dimpl, dpc, chapter_id, pages, fetched, dirs, files, page_starts, dret>>

adapterVars == <<adapter, aop, apc, params_limit, manga_id, offset, all_chapters,
                 feed_requests, discovered, url_index, fetch_failures, aret>>

helperVars == <<ucall, uarg, uout, uout2>>

tuiVars == <<current_page, items_per_page, total_items, overflow_checks, tcall,
             page_before, tret>>

vars == <<engineVars, limiterVars, httpVars, downloadVars, adapterVars, helperVars,
          tuiVars>>

\* what the actions of one part leave alone
EngineOnly ==
    UNCHANGED <<limiterVars, httpVars, downloadVars, adapterVars, helperVars, tuiVars>>
LimiterOnly ==
    UNCHANGED <<engineVars, httpVars, downloadVars, adapterVars, helperVars, tuiVars>>
HttpOnly ==
    UNCHANGED <<engineVars, limiterVars, downloadVars, adapterVars, helperVars, tuiVars>>
DownloadOnly ==
    UNCHANGED <<engineVars, limiterVars, httpVars, adapterVars, helperVars, tuiVars>>
HelpersOnly ==
    UNCHANGED <<engineVars, limiterVars, httpVars, downloadVars, adapterVars, tuiVars>>
TuiOnly ==
    UNCHANGED <<engineVars, limiterVars, httpVars, downloadVars, adapterVars, helperVars>>
AdaptersOnly ==
    UNCHANGED <<engineVars, limiterVars, httpVars, downloadVars, helperVars, tuiVars>>

----------------------------------------------------------------------------
(* Bounds of the model.                                                    *)

MaxSources == 2      \* adapters registered
MaxTime == 4         \* the clock stops here
MaxRetries == 3      \* the largest max_retries a client is configured with
MaxItems == 2        \* items in a MangaDex search response
MaxLimit == 2        \* the largest params.limit
MaxTotal == 4        \* the largest `total` of a MangaDex feed response
MaxFeedRequests == 3 \* feed requests of one fetch_all_chapters call
MaxOver == 1         \* how far a file name goes beyond the length limit
MaxList == 3         \* the length of a list given to dedupe_by_title
MaxNameLen == 3      \* the length of the name put into a URL
UsizeBits == 5       \* the width of usize in the model of AppState

----------------------------------------------------------------------------
(* Generic helpers.                                                        *)

SeqsUpTo(S, n) == UNION {[1..k -> S] : k \in 0..n}

RECURSIVE Flatten(_)
\* Vec::append of each element in order
Flatten(ss) == IF ss = <<>> THEN <<>> ELSE Head(ss) \o Flatten(Tail(ss))

RECURSIVE Join(_, _)
\* [String]::join(sep)
Join(ss, sep) ==
    IF ss = <<>> THEN <<>>
    ELSE IF Len(ss) = 1 THEN ss[1]
    ELSE ss[1] \o sep \o Join(Tail(ss), sep)

RECURSIVE SelectIdx(_, _, _)
\* the indices i in lo..Len(s), ascending, with P(s[i]) given as a set of values
SelectIdx(s, lo, good) ==
    IF lo > Len(s) THEN <<>>
    ELSE IF s[lo] \in good THEN <<lo>> \o SelectIdx(s, lo + 1, good)
    ELSE SelectIdx(s, lo + 1, good)

----------------------------------------------------------------------------
(* Values.                                                                 *)

AdapterIds == {"mgd", "kmg", "mdr"}
\* what an adapter may write into Manga.source_id itself
RawSourceIds == {"mgd", ""}
MangaIds == {"m1", "m2"}

\* types.rs Manga, reduced to the fields the engine reads or writes
Manga == [id : MangaIds, source_id : AdapterIds \cup RawSourceIds]

\* error.rs Error: the variants a search can fail with
SearchErrors == {[kind |-> "NotFound", msg |-> "x"], [kind |-> "Parse", msg |-> "y"]}

\* impl Display for Error (the #[error("...")] attributes)
ErrorDisplay(e) ==
    CASE e.kind = "Parse"    -> <<"Parse error: ", e.msg>>
      [] e.kind = "NotFound" -> <<"Not found: ", e.msg>>
      [] e.kind = "Other"    -> <<e.msg>>
      [] OTHER               -> <<e.kind, e.msg>>

NoError == [kind |-> "", msg |-> ""]
Ok(v)  == [ok |-> TRUE, val |-> v, err |-> NoError]
Err(e) == [ok |-> FALSE, val |-> <<>>, err |-> e]
Pending == [ok |-> FALSE, val |-> <<>>, err |-> [kind |-> "pending", msg |-> ""]]

\* the lists an adapter's search may return: none, one and two Manga, carrying
\* the source_id the adapter wrote (its own, another adapter's, or none)
SearchLists ==
    {<<>>,
     <<[id |-> "m1", source_id |-> ""]>>,
     <<[id |-> "m2", source_id |-> "mgd"], [id |-> "m1", source_id |-> ""]>>}

\* every outcome of one adapter's search(params)
SearchOutcomes == {Ok(v) : v \in SearchLists} \cup {Err(e) : e \in SearchErrors}

----------------------------------------------------------------------------
(* Sources: the registry (src/src/source.rs:385-524).                      *)

\* Sources::len
SourcesLen == Len(sources)

\* Sources::list_ids
ListIds == sources

\* Sources::is_empty
SourcesIsEmpty == sources = <<>>

\* a lookup that answers with the adapter added last, whatever the id
SourcesGetLast(id) ==
    IF id \in DOMAIN by_id THEN Len(sources) ELSE 0

\* Sources::get: by_id.get(id).and_then(|&index| self.sources.get(index));
\* the result is the position (1-based here) of the adapter, 0 for None
SourcesGet(id) ==
    IF id \in DOMAIN by_id /\ by_id[id] + 1 \in 1..Len(sources)
    THEN by_id[id] + 1 ELSE 0

\* an insert that keeps the value a key already has
MapInsertIfAbsent(m, k, v) ==
    [x \in DOMAIN m \cup {k} |-> IF x = k /\ k \notin DOMAIN m THEN v ELSE m[x]]

\* HashMap::insert
MapInsert(m, k, v) == [x \in DOMAIN m \cup {k} |-> IF x = k THEN v ELSE m[x]]

\* Sources::add. It takes &mut self, so no search is in flight; the value an
\* earlier search returned was computed from the registry as it was, and is
\* dropped here.
Add(id) ==
    /\ call = "none"
    /\ Len(sources) < MaxSources
    /\ sources' = Append(sources, id)
    /\ by_id' = MapInsert(by_id, id, Len(sources))
    /\ raws' = <<>>
    /\ futures' = <<>>
    /\ completed' = <<>>
    /\ ret' = [op |-> "none", val |-> <<>>]
    /\ UNCHANGED <<call, target>>
    /\ EngineOnly

----------------------------------------------------------------------------
(* The fan-out search (src/src/source.rs:562-645,                          *)
(* src/src/search.rs:255-343).                                             *)

\* the Manga as the adapter returned them (the tagging loop left out)
TagAllSkipped(manga, source_id) == manga

\* for m in &mut manga { m.source_id = source_id.clone(); }
TagAll(manga, source_id) ==
    [i \in 1..Len(manga) |-> [manga[i] EXCEPT !.source_id = source_id]]

\* the async block of search_all_grouped: (source_id, result) for one adapter
FutureOutput(source_id, outcome) ==
    [source_id |-> source_id,
     result |-> IF outcome.ok THEN Ok(TagAll(outcome.val, source_id)) ELSE outcome]

\* the error alone, without the source it came from
ErrorEntryNoSource(g) == ErrorDisplay(g.result.err)

\* format!("{}: {}", source_id, e)
ErrorEntry(g) == <<g.source_id, ": ">> \o ErrorDisplay(g.result.err)

\* the loop of search_all_flat over the joined results
AllResults(grouped) ==
    Flatten([i \in 1..Len(grouped) |->
                IF grouped[i].result.ok THEN grouped[i].result.val ELSE <<>>])

FlatErrors(grouped) ==
    LET bad == SelectIdx([i \in 1..Len(grouped) |-> grouped[i].result.ok], 1, {FALSE})
    IN  [k \in 1..Len(bad) |-> ErrorEntry(grouped[bad[k]])]

\* Sources::search_all_flat, after the join
SearchAllFlat(grouped) ==
    LET all_results == AllResults(grouped)
        errors == FlatErrors(grouped)
    IN  IF all_results = <<>> /\ errors # <<>>
        THEN Err([kind |-> "Other",
                  msg |-> <<"All sources failed: ">> \o Join(errors, <<", ">>)])
        ELSE Ok(all_results)

\* SearchBuilder::group / SearchBuilder::flatten: one future per adapter is made
StartSearch(op) ==
    /\ call = "none"
    /\ call' = op
    /\ raws' = [i \in 1..Len(sources) |-> Pending]
    /\ futures' = [i \in 1..Len(sources) |-> [source_id |-> sources[i], result |-> Pending]]
    /\ completed' = <<>>
    /\ ret' = [op |-> "none", val |-> <<>>]
    /\ UNCHANGED <<sources, by_id, target>>
    /\ EngineOnly

Group == StartSearch("group")

FlattenStart == StartSearch("flat")

\* one adapter's search(params) returns; its future tags the result and completes.
\* The futures run concurrently, so they complete in any order.
SearchReturns(i, outcome) ==
    /\ call \in {"group", "flat"}
    /\ i \in 1..Len(raws)
    /\ raws[i] = Pending
    /\ raws' = [raws EXCEPT ![i] = outcome]
    /\ futures' = [futures EXCEPT ![i] = FutureOutput(sources[i], outcome)]
    /\ completed' = Append(completed, i)
    /\ UNCHANGED <<sources, by_id, call, target, ret>>
    /\ EngineOnly

\* the outputs in the order the futures completed (not what join_all does)
JoinedAsCompleted(outs, done) == [k \in 1..Len(done) |-> outs[done[k]]]

\* future::join_all: the outputs in the order of the futures, whatever the order
\* `done` they completed in
Joined(outs, done) == outs

\* search_all_grouped returns once every future is complete
JoinAll ==
    /\ call \in {"group", "flat"}
    /\ \A i \in 1..Len(raws) : raws[i] # Pending
    /\ LET grouped == Joined(futures, completed)
       IN  ret' = [op |-> call,
                   val |-> IF call = "group" THEN grouped ELSE SearchAllFlat(grouped)]
    /\ call' = "none"
    /\ UNCHANGED <<sources, by_id, target, raws, futures, completed>>
    /\ EngineOnly

\* SearchBuilder::from_source, up to the await of the adapter's search
FromSource(id) ==
    /\ call = "none"
    /\ target' = id
    /\ IF SourcesGet(id) = 0
       THEN /\ ret' = [op |-> "from",
                       val |-> Err([kind |-> "NotFound", msg |-> <<"Source: ", id>>])]
            /\ raws' = <<>>
            /\ UNCHANGED call
       ELSE /\ call' = "from"
            /\ raws' = <<Pending>>
            /\ ret' = [op |-> "none", val |-> <<>>]
    /\ futures' = <<>>
    /\ completed' = <<>>
    /\ UNCHANGED <<sources, by_id>>
    /\ EngineOnly

\* SearchBuilder::from_source, from the return of the adapter's search
FromSourceReturns(outcome) ==
    /\ call = "from"
    /\ raws' = <<outcome>>
    /\ ret' = [op |-> "from",
               val |-> IF outcome.ok THEN Ok(TagAll(outcome.val, target)) ELSE outcome]
    /\ call' = "none"
    /\ UNCHANGED <<sources, by_id, target, futures, completed>>
    /\ EngineOnly

InitEngine ==
    /\ sources = <<>>
    /\ by_id = <<>>
    /\ call = "none"
    /\ target = ""
    /\ raws = <<>>
    /\ futures = <<>>
    /\ completed = <<>>
    /\ ret = [op |-> "none", val |-> <<>>]

----------------------------------------------------------------------------
(* RateLimiter (src/src/net/mod.rs:67-145) and tasks that call wait().     *)

\* default_delay: 200 ms (HttpClient::new), in the clock's units of 100 ms
Delay == 2

Tasks == {1, 2}
Keys == {"mgd", "kmg"}

\* Instant::duration_since: saturates to zero when `earlier` is later
DurationSince(later, earlier) == IF later >= earlier THEN later - earlier ELSE 0

\* a limiter with one bucket for all keys: the latest request of any key counts
WaitDurationAnyKey(map, key, now) ==
    IF DOMAIN map # {}
    THEN LET last == CHOOSE v \in {map[k] : k \in DOMAIN map} :
                         \A k \in DOMAIN map : map[k] <= v
             elapsed == DurationSince(now, last)
         IN  IF elapsed < Delay THEN Delay - elapsed ELSE 0
    ELSE 0

\* the block that computes wait_duration under the lock; 0 stands for None
WaitDuration(map, key, now) ==
    IF key \in DOMAIN map
    THEN LET elapsed == DurationSince(now, map[key])
         IN  IF elapsed < Delay THEN Delay - elapsed ELSE 0
    ELSE 0

\* time passes
Tick ==
    /\ clock < MaxTime
    /\ clock' = clock + 1
    /\ UNCHANGED <<last_request, wpc, wkey, wnow, wdeadline, wslept,
                   prev_return, last_return>>
    /\ LimiterOnly

\* wait(source_id) is called: let now = Instant::now();
WaitBegin(t, key) ==
    /\ wpc[t] = "idle"
    /\ wpc' = [wpc EXCEPT ![t] = "check"]
    /\ wkey' = [wkey EXCEPT ![t] = key]
    /\ wnow' = [wnow EXCEPT ![t] = clock]
    /\ wslept' = [wslept EXCEPT ![t] = FALSE]
    /\ UNCHANGED <<clock, last_request, wdeadline, prev_return, last_return>>
    /\ LimiterOnly

\* the lock is taken, wait_duration computed, the lock released; with
\* Some(duration) the task starts tokio::time::sleep(duration)
WaitCheck(t) ==
    /\ wpc[t] = "check"
    /\ LET d == WaitDuration(last_request, wkey[t], wnow[t])
       IN  IF d > 0
           THEN /\ wpc' = [wpc EXCEPT ![t] = "sleep"]
                /\ wdeadline' = [wdeadline EXCEPT ![t] = clock + d]
                /\ wslept' = [wslept EXCEPT ![t] = TRUE]
           ELSE /\ wpc' = [wpc EXCEPT ![t] = "record"]
                /\ UNCHANGED <<wdeadline, wslept>>
    /\ UNCHANGED <<clock, last_request, wkey, wnow, prev_return, last_return>>
    /\ LimiterOnly

\* the sleep ends, not before its deadline
WaitWake(t) ==
    /\ wpc[t] = "sleep"
    /\ clock >= wdeadline[t]
    /\ wpc' = [wpc EXCEPT ![t] = "record"]
    /\ UNCHANGED <<clock, last_request, wkey, wnow, wdeadline, wslept,
                   prev_return, last_return>>
    /\ LimiterOnly

\* self.last_request.lock().insert(source_id, Instant::now()); wait returns
WaitRecord(t) ==
    /\ wpc[t] = "record"
    /\ last_request' = MapInsert(last_request, wkey[t], clock)
    /\ prev_return' = [prev_return EXCEPT ![wkey[t]] = last_return[wkey[t]]]
    /\ last_return' = [last_return EXCEPT ![wkey[t]] = clock]
    /\ wpc' = [wpc EXCEPT ![t] = "idle"]
    \* the locals of the call are gone
    /\ wkey' = [wkey EXCEPT ![t] = ""]
    /\ wnow' = [wnow EXCEPT ![t] = 0]
    /\ wdeadline' = [wdeadline EXCEPT ![t] = 0]
    /\ UNCHANGED <<clock, wslept>>
    /\ LimiterOnly

\* RateLimiter::new
InitLimiter ==
    /\ clock = 0
    /\ last_request = <<>>
    /\ wpc = [t \in Tasks |-> "idle"]
    /\ wkey = [t \in Tasks |-> ""]
    /\ wnow = [t \in Tasks |-> 0]
    /\ wdeadline = [t \in Tasks |-> 0]
    /\ wslept = [t \in Tasks |-> FALSE]
    /\ prev_return = [k \in Keys |-> -1]
    /\ last_return = [k \in Keys |-> -1]

NextLimiter ==
    \/ Tick
    \/ \E t \in Tasks, k \in Keys : WaitBegin(t, k)
    \/ \E t \in Tasks : WaitCheck(t)
    \/ \E t \in Tasks : WaitWake(t)
    \/ \E t \in Tasks : WaitRecord(t)

----------------------------------------------------------------------------
(* HttpClient::get (src/src/net/mod.rs:352-399).                           *)

DigitChars == <<"0", "1", "2", "3", "4", "5", "6", "7", "8", "9">>
IsDigit(c) == \E i \in 1..10 : DigitChars[i] = c
DigitVal(c) == (CHOOSE i \in 1..10 : DigitChars[i] = c) - 1

\* Option<u64>: None is -1
None == -1

RECURSIVE DigitsValue(_, _)
DigitsValue(cs, acc) ==
    IF cs = <<>> THEN acc ELSE DigitsValue(Tail(cs), acc * 10 + DigitVal(Head(cs)))

\* str::parse::<u64>().ok(): an optional '+', then one or more digits (values
\* here stay far below 2^64)
ParseU64(cs) ==
    LET ds == IF cs # <<>> /\ Head(cs) = "+" THEN Tail(cs) ELSE cs
    IN  IF ds # <<>> /\ \A i \in 1..Len(ds) : IsDigit(ds[i])
        THEN DigitsValue(ds, 0) ELSE None

\* a response without a Retry-After header
Absent == <<"(absent)">>

\* the values of the Retry-After header: with what each says in seconds
RetryAfterHeaders ==
    {[text |-> Absent, seconds |-> None],
     [text |-> <<"7">>, seconds |-> 7],
     [text |-> <<"1", "2">>, seconds |-> 12],
     [text |-> <<"s", "o", "o", "n">>, seconds |-> None]}

\* what one request of get() may end in
Responses ==
    {[kind |-> "status", code |-> 200, retry_after |-> Absent, body |-> b] : b \in BOOLEAN}
    \cup {[kind |-> "status", code |-> 429, retry_after |-> h.text, body |-> TRUE] :
             h \in RetryAfterHeaders}
    \cup {[kind |-> "status", code |-> c, retry_after |-> Absent, body |-> TRUE] :
             c \in {404, 500}}
    \cup {[kind |-> "transport", code |-> 0, retry_after |-> Absent, body |-> FALSE]}

\* response.headers().get("retry-after").and_then(to_str).and_then(parse::<u64>)
RetryAfter(resp) ==
    IF resp.retry_after = Absent THEN None ELSE ParseU64(resp.retry_after)

RECURSIVE Pow2(_)
\* 2_u64.pow(n)
Pow2(n) == IF n = 0 THEN 1 ELSE 2 * Pow2(n - 1)

\* one retry too many
MayRetryOffByOne(n, max) == n <= max

\* a client that retries whatever the count
MayRetryAlways(n, max) == TRUE

\* if attempts < self.max_retries
MayRetry(n, max) == n < max

HttpOk == [ok |-> TRUE, kind |-> "", retry_after |-> None, code |-> 0]
HttpErr(kind, retry_after, code) ==
    [ok |-> FALSE, kind |-> kind, retry_after |-> retry_after, code |-> code]

\* get(url) is called: let mut attempts = 0;
GetBegin ==
    /\ hpc \in {"idle", "done"}
    /\ hpc' = "wait"
    /\ attempts' = 0
    /\ requests' = <<>>
    /\ hwaits' = 0
    /\ hsleeps' = <<>>
    /\ hret' = HttpOk
    /\ UNCHANGED max_retries
    /\ HttpOnly

\* self.rate_limiter.wait(&self.source_id).await, at the head of the loop
GetRateLimit ==
    /\ hpc = "wait"
    /\ hpc' = "send"
    /\ hwaits' = hwaits + 1
    /\ UNCHANGED <<max_retries, attempts, requests, hsleeps, hret>>
    /\ HttpOnly

\* CLIENT.get(url).send().await ends with resp, and the match on it
GetResponse(resp) ==
    /\ hpc = "send"
    /\ requests' = Append(requests, resp)
    /\ CASE resp.kind = "status" /\ resp.code = 200 ->
              \* return Ok(response.bytes().await?)
              /\ hret' = IF resp.body THEN HttpOk ELSE HttpErr("Network", None, 0)
              /\ hpc' = "done"
              /\ UNCHANGED <<attempts, hsleeps>>
         [] resp.kind = "status" /\ resp.code = 429 ->
              IF MayRetry(attempts, max_retries)
              THEN /\ attempts' = attempts + 1
                   /\ hsleeps' = Append(hsleeps, Pow2(attempts + 1))
                   /\ hpc' = "backoff"
                   /\ UNCHANGED hret
              ELSE /\ hret' = HttpErr("RateLimit", RetryAfter(resp), 0)
                   /\ hpc' = "done"
                   /\ UNCHANGED <<attempts, hsleeps>>
         [] resp.kind = "status" /\ resp.code \notin {200, 429} ->
              /\ hret' = HttpErr("Source", None, resp.code)
              /\ hpc' = "done"
              /\ UNCHANGED <<attempts, hsleeps>>
         [] resp.kind = "transport" ->
              IF MayRetry(attempts, max_retries)
              THEN /\ attempts' = attempts + 1
                   /\ hsleeps' = Append(hsleeps, 1)
                   /\ hpc' = "backoff"
                   /\ UNCHANGED hret
              ELSE /\ hret' = HttpErr("Network", None, 0)
                   /\ hpc' = "done"
                   /\ UNCHANGED <<attempts, hsleeps>>
    /\ UNCHANGED <<max_retries, hwaits>>
    /\ HttpOnly

\* tokio::time::sleep(delay).await ends; continue
GetBackoffEnds ==
    /\ hpc = "backoff"
    /\ hpc' = "wait"
    /\ UNCHANGED <<max_retries, attempts, requests, hwaits, hsleeps, hret>>
    /\ HttpOnly

\* HttpClient::new(..).with_max_retries(r)
InitHttp ==
    /\ hpc = "idle"
    /\ attempts = 0
    /\ requests = <<>>
    /\ hwaits = 0
    /\ hsleeps = <<>>
    /\ hret = HttpOk

NextHttp ==
    \/ GetBegin
    \/ GetRateLimit
    \/ \E resp \in Responses : GetResponse(resp)
    \/ GetBackoffEnds

----------------------------------------------------------------------------
(* download_chapter: the default of trait Source                           *)
(* (src/src/source.rs:274-341) and KissManga's override                    *)
(* (src/src/sources/kissmanga.rs:312-408).                                 *)

\* str::replace(from, to) for single characters
ReplaceChar(cs, from, to) == [i \in 1..Len(cs) |-> IF cs[i] = from THEN to ELSE cs[i]]

RECURSIVE SplitOn(_, _, _)
\* str::split(sep): the pieces between the separators, `cur` the piece begun
SplitOn(cs, sep, cur) ==
    IF cs = <<>> THEN <<cur>>
    ELSE IF Head(cs) = sep THEN <<cur>> \o SplitOn(Tail(cs), sep, <<>>)
    ELSE SplitOn(Tail(cs), sep, Append(cur, Head(cs)))

\* Path::components of a relative path: the names between the slashes
Components(cs) ==
    LET pieces == SplitOn(cs, "/", <<>>)
        kept == SelectIdx([i \in 1..Len(pieces) |-> pieces[i] # <<>>], 1, {TRUE})
    IN  [k \in 1..Len(kept) |-> pieces[kept[k]]]

\* Path::join(name), for a name that does not start with '/'
PathJoin(base, name) == base \o Components(name)

RECURSIVE DecimalDigits(_)
\* the decimal digits of n
DecimalDigits(n) ==
    IF n < 10 THEN <<DigitChars[n + 1]>>
    ELSE Append(DecimalDigits(n \div 10), DigitChars[(n % 10) + 1])

RECURSIVE PadLeft(_, _, _)
PadLeft(cs, width, c) == IF Len(cs) >= width THEN cs ELSE PadLeft(<<c>> \o cs, width, c)

\* format!("{:03}", n)
Pad3(n) == PadLeft(DecimalDigits(n), 3, "0")

\* page_url.split('?').next().and_then(|url| url.split('.').last())
\*     .filter(|ext| ext.len() <= 4).unwrap_or("jpg")
Extension(page_url) ==
    LET before_query == SplitOn(page_url, "?", <<>>)[1]
        dotted == SplitOn(before_query, ".", <<>>)
        last == dotted[Len(dotted)]
    IN  IF Len(last) <= 4 THEN last ELSE <<"j", "p", "g">>

\* format!("page_{:03}.{}", i + 1, extension), i the 0-based index of the page
PageFileName(i, page_url) == <<"p", "a", "g", "e", "_">> \o Pad3(i + 1) \o <<".">> \o Extension(page_url)

\* the directory name with every '/' of the id replaced (the names of one
\* directory level)
ChapterDirNameSanitized(id) == <<"c", "h", "a", "p", "t", "e", "r", "_">> \o ReplaceChar(id, "/", "_")

\* source.rs:291: format!("chapter_{}", chapter_id)
\* kissmanga.rs:334: format!("chapter_{}", chapter_id.replace('/', "_"))
ChapterDirName(impl, id) ==
    IF impl = "kissmanga" THEN ChapterDirNameSanitized(id) ELSE <<"c", "h", "a", "p", "t", "e", "r", "_">> \o id

OutputDir == <<<<"o", "u", "t">>>>

\* output_dir.join(format!("chapter_{}", ..))
ChapterDir(impl, id) == PathJoin(OutputDir, ChapterDirName(impl, id))

\* the prefixes of a path: what create_dir_all makes
Ancestors(path) == {SubSeq(path, 1, k) : k \in 1..Len(path)}

\* whether a page whose response is not 2xx is skipped:
\* source.rs:303-309 returns Err, kissmanga.rs:363-370 continues
SkipsFailedPage(impl) == impl = "kissmanga"

ChapterIds == {<<"c", "1">>, <<"c", "h", "/", "1">>}

\* the page lists get_pages may return
PageLists ==
    {<<>>,
     <<<<"h", "t", "t", "p", "s", ":", "/", "/", "x", "/", "a", ".", "p", "n", "g", "?", "q", "=", "1">>,
       <<"h", "t", "t", "p", "s", ":", "/", "/", "x", "/", "b", ".", "j", "p", "e", "g">>>>,
     <<<<"h", "t", "t", "p", "s", ":", "/", "/", "x", "/", "c">>,
       <<"h", "t", "t", "p", "s", ":", "/", "/", "x", "/", "d", ".", "w", "e", "b", "p">>,
       <<"h", "t", "t", "p", "s", ":", "/", "/", "x", ".", "i", "o", "/", "e">>>>}

\* how the GET of one page may end: a 2xx response with its body, another
\* status, a transport error of send(), an error while reading the body
PageOutcomes == {"ok", "status", "send_error", "body_error"}

DlOk(path) == [ok |-> TRUE, path |-> path, kind |-> ""]
DlErr(kind) == [ok |-> FALSE, path |-> <<>>, kind |-> kind]

\* download_chapter(chapter_id, output_dir) is called on an empty output_dir
DownloadBegin(impl, id) ==
    /\ dpc \in {"idle", "done"}
    /\ dimpl' = impl
    /\ chapter_id' = id
    /\ dpc' = "pages"
    /\ pages' = <<>>
    /\ fetched' = <<>>
    /\ dirs' = {OutputDir}
    /\ files' = {}
    /\ page_starts' = <<>>
    /\ dret' = DlErr("")
    /\ DownloadOnly

\* self.get_pages(chapter_id).await? fails
GetPagesFails ==
    /\ dpc = "pages"
    /\ dret' = DlErr("NotFound")
    /\ dpc' = "done"
    /\ UNCHANGED <<dimpl, chapter_id, pages, fetched, dirs, files, page_starts>>
    /\ DownloadOnly

\* self.get_pages(chapter_id).await? returns ps; the empty list is an error,
\* otherwise the chapter directory is made with create_dir_all
GetPagesReturns(ps) ==
    /\ dpc = "pages"
    /\ pages' = ps
    /\ IF ps = <<>>
       THEN /\ dret' = DlErr("Source")
            /\ dpc' = "done"
            /\ UNCHANGED dirs
       ELSE /\ dirs' = dirs \cup Ancestors(ChapterDir(dimpl, chapter_id))
            /\ dpc' = "loop"
            /\ UNCHANGED dret
    /\ UNCHANGED <<dimpl, chapter_id, fetched, files, page_starts>>
    /\ DownloadOnly

\* one turn of the loop over the pages: the GET of page i = Len(fetched) is
\* sent with client.get(page_url).send() on a reqwest::Client made for the
\* call (source.rs:297-299, kissmanga.rs:340-355; no RateLimiter::wait comes
\* before it), it ends with `outcome`, and the page is written, skipped, or
\* ends the call
PageFetched(outcome) ==
    /\ dpc = "loop"
    /\ LET i == Len(fetched)
           chapter_dir == ChapterDir(dimpl, chapter_id)
           filepath == PathJoin(chapter_dir, PageFileName(i, pages[i + 1]))
           parent == SubSeq(filepath, 1, Len(filepath) - 1)
           last_turn == i + 1 = Len(pages)
       IN  /\ fetched' = Append(fetched, outcome)
           /\ page_starts' = Append(page_starts, clock)
           /\ CASE outcome \in {"send_error", "body_error"} ->
                    /\ dret' = DlErr("Parse")
                    /\ dpc' = "done"
                    /\ UNCHANGED files
                [] outcome = "status" /\ ~SkipsFailedPage(dimpl) ->
                    /\ dret' = DlErr("Parse")
                    /\ dpc' = "done"
                    /\ UNCHANGED files
                [] outcome = "status" /\ SkipsFailedPage(dimpl) ->
                    /\ dret' = IF last_turn THEN DlOk(chapter_dir) ELSE dret
                    /\ dpc' = IF last_turn THEN "done" ELSE "loop"
                    /\ UNCHANGED files
                [] outcome = "ok" /\ parent \notin dirs ->
                    \* fs::File::create fails: no such directory
                    /\ dret' = DlErr("Source")
                    /\ dpc' = "done"
                    /\ UNCHANGED files
                [] outcome = "ok" /\ parent \in dirs ->
                    /\ files' = files \cup {filepath}
                    /\ dret' = IF last_turn THEN DlOk(chapter_dir) ELSE dret
                    /\ dpc' = IF last_turn THEN "done" ELSE "loop"
    /\ UNCHANGED <<dimpl, chapter_id, pages, dirs>>
    /\ DownloadOnly

InitDownload ==
    /\ dimpl = "default"
    /\ dpc = "idle"
    /\ chapter_id = <<>>
    /\ pages = <<>>
    /\ fetched = <<>>
    /\ dirs = {OutputDir}
    /\ files = {}
    /\ page_starts = <<>>
    /\ dret = DlErr("")

NextDownload ==
    \/ \E impl \in {"default", "kissmanga"}, id \in ChapterIds : DownloadBegin(impl, id)
    \/ GetPagesFails
    \/ \E ps \in PageLists : GetPagesReturns(ps)
    \/ \E o \in PageOutcomes : PageFetched(o)
    \/ Tick

----------------------------------------------------------------------------
(* The adapters: search and get_chapters of MangaDex                       *)
(* (src/src/sources/mangadex.rs), KissManga (src/src/sources/kissmanga.rs) *)
(* and the configurable Madara adapter                                     *)
(* (src/src/sources/madara_configurable.rs), each computed from what the   *)
(* remote answers.  Strings the adapters take apart are sequences of       *)
(* characters.                                                             *)

\* Option<T>: None is the empty sequence, Some(x) the sequence of x alone
Nothing == <<>>
Some(x) == <<x>>

\* str::starts_with
StartsWith(cs, pre) == Len(cs) >= Len(pre) /\ SubSeq(cs, 1, Len(pre)) = pre

\* &cs[p..], p counted from 1
From(cs, p) == SubSeq(cs, p, Len(cs))

\* str::find(pat): the leftmost position where pat begins, 0 for None
Find(cs, pat) ==
    LET hits == {p \in 1..Len(cs) : StartsWith(From(cs, p), pat)}
    IN  IF hits = {} THEN 0 ELSE CHOOSE p \in hits : \A q \in hits : p <= q

RECURSIVE TrimEndMatches(_, _)
\* str::trim_end_matches(c)
TrimEndMatches(cs, c) ==
    IF cs # <<>> /\ cs[Len(cs)] = c THEN TrimEndMatches(SubSeq(cs, 1, Len(cs) - 1), c)
    ELSE cs

UpperChars == <<"A", "C", "E", "H", "N", "P", "R", "T", "V", "X">>
LowerChars == <<"a", "c", "e", "h", "n", "p", "r", "t", "v", "x">>

\* str::to_lowercase, and the (?i) flag of the patterns (the upper-case
\* letters are those of the strings below)
ToLowercase(cs) ==
    [i \in 1..Len(cs) |->
        IF \E k \in 1..Len(UpperChars) : UpperChars[k] = cs[i]
        THEN LowerChars[CHOOSE k \in 1..Len(UpperChars) : UpperChars[k] = cs[i]]
        ELSE cs[i]]

\* f64: the finite values, counted in tenths, and NaN
Finite(tenths) == [nan |-> FALSE, tenths |-> tenths]
NaN == [nan |-> TRUE, tenths |-> 0]

\* f64::partial_cmp: None when either side is NaN
PartialCmp(a, b) ==
    IF a.nan \/ b.nan THEN "None"
    ELSE IF a.tenths < b.tenths THEN "Less"
    ELSE IF a.tenths > b.tenths THEN "Greater"
    ELSE "Equal"

\* digits, or digits '.' digits
IsDecimal(cs) ==
    LET parts == SplitOn(cs, ".", <<>>)
    IN  /\ Len(parts) \in {1, 2}
        /\ \A k \in 1..Len(parts) :
              parts[k] # <<>> /\ \A i \in 1..Len(parts[k]) : IsDigit(parts[k][i])

\* the value of a decimal in tenths (the decimals here have one digit after
\* the point at most)
DecimalTenths(cs) ==
    LET parts == SplitOn(cs, ".", <<>>)
    IN  DigitsValue(parts[1], 0) * 10
          + (IF Len(parts) = 2 THEN DigitVal(parts[2][1]) ELSE 0)

\* str::parse::<f64>().ok(): f64::from_str accepts "nan" in any case beside
\* the decimals; the other strings used here ("x", "") it rejects
ParseF64(cs) ==
    IF ToLowercase(cs) = <<"n", "a", "n">> THEN Some(NaN)
    ELSE IF IsDecimal(cs) THEN Some(Finite(DecimalTenths(cs)))
    ELSE Nothing

\* impl Display for f64: 2.0 prints as "2", 1.5 as "1.5", NaN as "NaN"
FormatF64(n) ==
    IF n.nan THEN <<"N", "a", "N">>
    ELSE IF n.tenths % 10 = 0 THEN DecimalDigits(n.tenths \div 10)
    ELSE DecimalDigits(n.tenths \div 10) \o <<".">> \o DecimalDigits(n.tenths % 10)

\* format!("Chapter {}", number)
ChapterTitle(number) == <<"C", "h", "a", "p", "t", "e", "r", " ">> \o FormatF64(number)

\* the comparator of both sort_by calls:
\* a.number.partial_cmp(&b.number).unwrap_or(Ordering::Equal)
CompareByNumber(a, b) ==
    LET c == PartialCmp(a.number, b.number) IN IF c = "None" THEN "Equal" ELSE c

RECURSIVE InsertTail(_, _)
\* x put into the sorted s from its end: x passes the elements it is Less than
InsertTail(s, x) ==
    IF s = <<>> THEN <<x>>
    ELSE IF CompareByNumber(x, s[Len(s)]) = "Less"
         THEN Append(InsertTail(SubSeq(s, 1, Len(s) - 1), x), s[Len(s)])
         ELSE Append(s, x)

RECURSIVE SortByNumber(_)
\* slice::sort_by with that comparator: the stable sort, which for a slice as
\* short as the ones here is the insertion sort of the standard library
SortByNumber(s) ==
    IF s = <<>> THEN <<>>
    ELSE CHOOSE sorted \in {InsertTail(front, s[Len(s)]) :
                               front \in {SortByNumber(SubSeq(s, 1, Len(s) - 1))}} : TRUE

\* Vec::truncate(limit) and Iterator::take(limit)
Truncate(s, limit) == IF Len(s) > limit THEN SubSeq(s, 1, limit) ELSE s

\* href.split('/').filter(|s| !s.is_empty()).last()
LastSegment(href) ==
    LET segs == Components(href)
    IN  IF segs = <<>> THEN Nothing ELSE Some(segs[Len(segs)])

\* str::split(pat).nth(1): what lies between the first pat and the next
SplitNth1(cs, pat) ==
    LET p == Find(cs, pat)
        rest == From(cs, p + Len(pat))
        q == Find(rest, pat)
    IN  IF p = 0 THEN Nothing
        ELSE Some(IF q = 0 THEN rest ELSE SubSeq(rest, 1, q - 1))

\* ---- the patterns of KissMangaSource::extract_chapter_number ----

\* the characters \d matches: the regex crate's \d is the Unicode class Nd,
\* the ASCII digits and the decimal digits of the other scripts, of which
\* "U+0663" (ARABIC-INDIC DIGIT THREE, one character) stands here
RegexDigit(c) == IsDigit(c) \/ c = "U+0663"

RECURSIVE DigitRun(_, _)
\* the last position of the digits that begin at p (p - 1 if none does)
DigitRun(cs, p) ==
    IF p <= Len(cs) /\ RegexDigit(cs[p]) THEN DigitRun(cs, p + 1) ELSE p - 1

\* the group (\d+(?:\.\d+)?) matched at p, a digit
CaptureNumberAt(cs, p) ==
    LET e == DigitRun(cs, p)
    IN  IF e + 2 <= Len(cs) /\ cs[e + 1] = "." /\ RegexDigit(cs[e + 2])
        THEN SubSeq(cs, p, DigitRun(cs, e + 2))
        ELSE SubSeq(cs, p, e)

\* Regex (\d+(?:\.\d+)?) .captures(cs): the leftmost match
FirstNumber(cs) ==
    LET hits == {p \in 1..Len(cs) : RegexDigit(cs[p])}
    IN  IF hits = {} THEN Nothing
        ELSE Some(CaptureNumberAt(cs, CHOOSE p \in hits : \A q \in hits : p <= q))

RECURSIVE SkipSpaces(_, _)
\* \s* from p
SkipSpaces(cs, p) ==
    IF p <= Len(cs) /\ cs[p] = " " THEN SkipSpaces(cs, p + 1) ELSE p

\* where the number must begin when a keyword ends before q: after \s* for the
\* title pattern, after -? for the id pattern
AfterSeparator(cs, q, sep) ==
    IF sep = "spaces" THEN SkipSpaces(cs, q)
    ELSE IF q <= Len(cs) /\ cs[q] = "-" THEN q + 1
    ELSE q

\* whether <keyword><separator><number> matches at p, and where its number is
KeywordMatchAt(cs, p, keywords, sep) ==
    {AfterSeparator(cs, p + Len(keywords[k]), sep) : k \in
        {j \in 1..Len(keywords) :
            /\ StartsWith(From(cs, p), keywords[j])
            /\ LET q == AfterSeparator(cs, p + Len(keywords[j]), sep)
               IN  q <= Len(cs) /\ RegexDigit(cs[q])}}

\* Regex (?i)(?:<keywords>)<separator>(\d+(?:\.\d+)?) .captures(cs), cs in
\* lower case: the leftmost match
KeywordNumber(cs, keywords, sep) ==
    LET hits == {p \in 1..Len(cs) : KeywordMatchAt(cs, p, keywords, sep) # {}}
        p0 == CHOOSE p \in hits : \A q \in hits : p <= q
        at == KeywordMatchAt(cs, p0, keywords, sep)
    IN  IF hits = {} THEN Nothing
        ELSE Some(CaptureNumberAt(cs, CHOOSE q \in at : \A r \in at : q <= r))

\* (?:chapter|ch\.?)
TitleKeywords == <<<<"c", "h", "a", "p", "t", "e", "r">>, <<"c", "h", ".">>, <<"c", "h">>>>
\* (?:chapter|ch)
IdKeywords == <<<<"c", "h", "a", "p", "t", "e", "r">>, <<"c", "h">>>>

\* KissMangaSource::extract_chapter_number(title, chapter_id), id the chapter_id
ExtractChapterNumber(title, id) ==
    LET title_lower == ToLowercase(title)
        r1 == KeywordNumber(title_lower, TitleKeywords, "spaces")
        r2 == FirstNumber(title_lower)
        r3 == KeywordNumber(ToLowercase(id), IdKeywords, "dash")
        r4 == FirstNumber(id)
    IN  IF r1 # Nothing THEN ParseF64(r1[1])
        ELSE IF r2 # Nothing THEN ParseF64(r2[1])
        ELSE IF r3 # Nothing THEN ParseF64(r3[1])
        ELSE IF r4 # Nothing THEN ParseF64(r4[1])
        ELSE Nothing

\* ---- what the remote answers ----

\* the anchors a selector finds in a page: the href attribute, if the anchor
\* has one, and the trimmed text
Element(href, text) == [href |-> href, text |-> text]

Anchors ==
    [a |-> Element(Some(<<"/", "m", "/", "c", "h", "-", "7", "/">>), <<"C", "h", ".", "2">>),
     b |-> Element(Some(<<"h", "t", "t", "p", "s", ":", "/", "/", "k", "i", "s", "s", "m", "a", "n", "g", "a", ".", "i", "n", "/", "k", "i", "s", "s", "m", "a", "n", "g", "a", "/", "a", "/", "c", "1", "/">>), <<"V", "o", "l", " ", "2", " ", "C", "h", "a", "p", "t", "e", "r", " ", "1">>),
     c |-> Element(Nothing, <<"E", "x", "t", "r", "a">>),
     d |-> Element(Some(<<"x">>), <<>>),
     e |-> Element(Some(<<"/", "m", "/", "c", "/">>), <<"C", "h", "a", "p", "t", "e", "r", " ", "2">>),
     f |-> Element(Some(<<>>), <<"3", ".", "5">>),
     g |-> Element(Some(<<"/">>), <<"P", "a", "r", "t", " ", "1", ".", "5">>),
     h |-> Element(Some(<<"/", "m", "/", "c", "h", "-", "7">>), <<"C", "h", ".", "U+0663">>)]

ElementLists ==
    {<<>>,
     <<Anchors.a, Anchors.b>>,
     <<Anchors.c>>,
     <<Anchors.c, Anchors.d, Anchors.a, Anchors.e>>,
     <<Anchors.f, Anchors.g, Anchors.b>>,
     <<Anchors.c, Anchors.h>>}

\* a page as the selectors tried in turn see it: the anchors each one finds
Documents(selectors) ==
    {[s \in 1..selectors |-> IF s < k THEN <<>> ELSE IF s = k THEN first ELSE later] :
        k \in 1..selectors, first \in ElementLists, later \in ElementLists}

\* MangaDexMangaData, of which the adapter's result keeps the id here
MangaData == {[id |-> <<"m", "1">>], [id |-> <<"m", "2">>]}
MangaDataLists == SeqsUpTo(MangaData, MaxItems)

\* MangaDexChapterData: id, attributes.chapter, attributes.title
ChapterData(id, chapter, title) == [id |-> id, chapter |-> chapter, title |-> title]

FeedItems ==
    [a |-> ChapterData(<<"a">>, Some(<<"2">>), Nothing),
     b |-> ChapterData(<<"b">>, Some(<<"N", "a", "N">>), Some(<<"T">>)),
     c |-> ChapterData(<<"c">>, Some(<<"1">>), Some(<<>>)),
     d |-> ChapterData(<<"d">>, Nothing, Nothing),
     e |-> ChapterData(<<"e">>, Some(<<"1", ".", "5">>), Nothing),
     f |-> ChapterData(<<"f">>, Some(<<"x">>), Some(<<"T">>)),
     g |-> ChapterData(<<"g">>, Some(<<"2">>), Some(<<"T">>))]

FeedData ==
    {<<>>,
     <<FeedItems.a, FeedItems.c>>,
     <<FeedItems.a, FeedItems.b, FeedItems.c>>,
     <<FeedItems.e, FeedItems.d, FeedItems.f>>,
     <<FeedItems.g, FeedItems.a>>}

\* MangaDexChapterListResponse: data, total, limit
FeedResponses == [data : FeedData, total : 0..MaxTotal, limit : {0, 2}]

\* the errors of HttpClient::get_text and get_json
FetchErrors ==
    {[kind |-> "Network", msg |-> "n"], [kind |-> "Parse", msg |-> "p"],
     [kind |-> "Source", msg |-> "HTTP 404"], [kind |-> "RateLimit", msg |-> "7"]}

\* SearchParams.limit: None or Some(n)
Limits == {None} \cup 0..MaxLimit

AdapterMangaIds == {"m1", "m2"}

\* ---- the adapters ----

MangaOf(id, source) == [id |-> id, source_id |-> source]

ChapterOf(id, number, title, m, source) ==
    [id |-> id, number |-> number, title |-> title, manga_id |-> m, source_id |-> source]

\* the limit applied to the list found (kissmanga.rs:110-113,
\* madara_configurable.rs:141-145)
ApplyLimit(list, limit) == IF limit # None THEN Truncate(list, limit) ELSE list

\* mangadex.rs:441-445: every item of response.data is mapped
MangaDexSearchResult(data) == [i \in 1..Len(data) |-> MangaOf(data[i].id, "mgd")]

\* kissmanga.rs:75-101: the anchors with an href and a text, for one selector
KissMangaMangaOf(elements) ==
    LET kept == SelectIdx([i \in 1..Len(elements) |->
                    elements[i].href # Nothing /\ elements[i].text # <<>>], 1, {TRUE})
    IN  [k \in 1..Len(kept) |->
            LET href == elements[kept[k]].href[1]
                parts == SplitOn(TrimEndMatches(href, "/"), "/", <<>>)
            IN  MangaOf(parts[Len(parts)], "kmg")]

RECURSIVE FirstFound(_, _)
\* the selectors in turn, stopping at the first that gave something
FirstFound(lists, s) ==
    IF s > Len(lists) THEN <<>>
    ELSE IF lists[s] # <<>> THEN lists[s]
    ELSE FirstFound(lists, s + 1)

KissMangaSearchSelectors == 3
KissMangaChapterSelectors == 6

\* select_all_attr(.., "href") zipped with select_all_text(..): the hrefs of
\* the anchors that have one, paired in order with the texts of all anchors
ZipLinksTitles(elements) ==
    LET with_href == SelectIdx([i \in 1..Len(elements) |-> elements[i].href # Nothing],
                               1, {TRUE})
    IN  [k \in 1..Len(with_href) |->
            [href |-> elements[with_href[k]].href[1], title |-> elements[k].text]]

\* the id the Madara adapter reads off an href (madara_configurable.rs:102-114
\* and 170-181)
MadaraId(href) ==
    IF Find(href, <<"/", "k", "i", "s", "s", "m", "a", "n", "g", "a", "/">>) # 0
    THEN Some(TrimEndMatches(SplitNth1(href, <<"/", "k", "i", "s", "s", "m", "a", "n", "g", "a", "/">>)[1], "/"))
    ELSE LastSegment(href)

\* madara_configurable.rs:91-139
MadaraMangaOf(elements) ==
    LET pairs == ZipLinksTitles(elements)
        kept == SelectIdx([i \in 1..Len(pairs) |->
                    /\ pairs[i].title # <<>>
                    /\ pairs[i].href # <<>>
                    /\ MadaraId(pairs[i].href) # Nothing], 1, {TRUE})
    IN  [k \in 1..Len(kept) |-> MangaOf(MadaraId(pairs[kept[k]].href)[1], "mdr")]

\* kissmanga.rs:140-153
KissMangaChapterId(href) ==
    IF StartsWith(href, <<"h", "t", "t", "p">>)
    THEN IF StartsWith(href, <<"h", "t", "t", "p", "s", ":", "/", "/", "k", "i", "s", "s", "m", "a", "n", "g", "a", ".", "i", "n">>)
         THEN From(href, Len(<<"h", "t", "t", "p", "s", ":", "/", "/", "k", "i", "s", "s", "m", "a", "n", "g", "a", ".", "i", "n">>) + 1)
         ELSE IF StartsWith(href, <<"h", "t", "t", "p", ":", "/", "/", "k", "i", "s", "s", "m", "a", "n", "g", "a", ".", "i", "n">>)
         THEN From(href, Len(<<"h", "t", "t", "p", ":", "/", "/", "k", "i", "s", "s", "m", "a", "n", "g", "a", ".", "i", "n">>) + 1)
         ELSE href
    ELSE IF StartsWith(href, <<"/">>) THEN href
    ELSE <<"/">> \o href

\* kissmanga.rs:135-173: the chapters of the anchors one selector finds
KissMangaChaptersOf(elements, m) ==
    LET kept == SelectIdx([i \in 1..Len(elements) |-> elements[i].href # Nothing],
                          1, {TRUE})
    IN  [k \in 1..Len(kept) |->
            LET index == kept[k] - 1
                title == elements[kept[k]].text
                id == KissMangaChapterId(elements[kept[k]].href[1])
                extracted == ExtractChapterNumber(title, id)
                number == IF extracted = Nothing THEN Finite((index + 1) * 10)
                          ELSE extracted[1]
            IN  ChapterOf(id, number,
                          IF title = <<>> THEN ChapterTitle(number) ELSE title,
                          m, "kmg")]

\* madara_configurable.rs:163-197
MadaraChaptersOf(elements, m) ==
    LET pairs == ZipLinksTitles(elements)
        kept == SelectIdx([i \in 1..Len(pairs) |->
                    pairs[i].href # <<>> /\ MadaraId(pairs[i].href) # Nothing], 1, {TRUE})
    IN  [k \in 1..Len(kept) |->
            LET i == kept[k] - 1
            IN  ChapterOf(MadaraId(pairs[kept[k]].href)[1], Finite((i + 1) * 10),
                          pairs[kept[k]].title, m, "mdr")]

\* MangaDexSource::map_chapter_data_to_chapter
MapChapterDataToChapter(data, m) ==
    LET parsed == IF data.chapter = Nothing THEN Nothing ELSE ParseF64(data.chapter[1])
        chapter_num == IF parsed = Nothing THEN Finite(0) ELSE parsed[1]
        title == IF data.title = Nothing THEN ChapterTitle(chapter_num) ELSE data.title[1]
    IN  ChapterOf(data.id, chapter_num, title, m, "mgd")

\* a call of search or get_chapters begins (the adapters keep nothing from
\* one call to the next: one call is followed)
AdapterCall(a, op, limit, m) ==
    /\ apc = "idle"
    /\ adapter' = a
    /\ aop' = op
    /\ params_limit' = limit
    /\ manga_id' = m
    /\ offset' = 0
    /\ all_chapters' = <<>>
    /\ feed_requests' = 0
    /\ url_index' = 0

\* MangaDexSource::search(params), the remote answering with `data`
MangaDexSearch(limit, data) ==
    /\ AdapterCall("mgd", "search", limit, "")
    /\ discovered' = MangaDexSearchResult(data)
    /\ fetch_failures' = <<>>
    /\ aret' = Ok(MangaDexSearchResult(data))
    /\ apc' = "done"
    /\ AdaptersOnly

\* KissMangaSource::search(params), the remote answering with page `doc`
KissMangaSearch(limit, doc) ==
    LET manga_list == FirstFound([s \in 1..Len(doc) |-> KissMangaMangaOf(doc[s])], 1)
    IN  /\ AdapterCall("kmg", "search", limit, "")
        /\ discovered' = manga_list
        /\ fetch_failures' = <<>>
        /\ aret' = Ok(ApplyLimit(manga_list, limit))
        /\ apc' = "done"
        /\ AdaptersOnly

\* ConfigurableMadaraSource::search(params), the manga_item selector finding
\* `elements` in the page
MadaraSearch(limit, elements) ==
    /\ AdapterCall("mdr", "search", limit, "")
    /\ discovered' = MadaraMangaOf(elements)
    /\ fetch_failures' = <<>>
    /\ aret' = Ok(ApplyLimit(MadaraMangaOf(elements), limit))
    /\ apc' = "done"
    /\ AdaptersOnly

\* the request of search or get_chapters fails: get_text(..).await? and
\* get_json(..).await? return the error
FetchFails(a, op, e) ==
    /\ AdapterCall(a, op, None, IF op = "chapters" THEN "m1" ELSE "")
    /\ discovered' = <<>>
    /\ fetch_failures' = <<e>>
    /\ aret' = Err(e)
    /\ apc' = "done"
    /\ AdaptersOnly

\* KissMangaSource::get_chapters(m), the remote answering with page `doc`
KissMangaGetChapters(m, doc) ==
    LET chapters == FirstFound([s \in 1..Len(doc) |-> KissMangaChaptersOf(doc[s], m)], 1)
    IN  /\ AdapterCall("kmg", "chapters", None, m)
        /\ discovered' = chapters
        /\ fetch_failures' = <<>>
        /\ aret' = Ok(SortByNumber(chapters))
        /\ apc' = "done"
        /\ AdaptersOnly

\* ConfigurableMadaraSource::get_chapters(m), the chapter selectors finding
\* `elements` in the page
MadaraGetChapters(m, elements) ==
    /\ AdapterCall("mdr", "chapters", None, m)
    /\ discovered' = MadaraChaptersOf(elements, m)
    /\ fetch_failures' = <<>>
    /\ aret' = Ok(MadaraChaptersOf(elements, m))
    /\ apc' = "done"
    /\ AdaptersOnly

\* MangaDexSource::get_chapters(m) enters the loop of fetch_all_chapters
MangaDexGetChapters(m) ==
    /\ AdapterCall("mgd", "chapters", None, m)
    /\ discovered' = <<>>
    /\ fetch_failures' = <<>>
    /\ aret' = Pending
    /\ apc' = "feed"
    /\ AdaptersOnly

\* the head of the loop of fetch_all_chapters: the feed is requested for the
\* current offset, self.client.get_json(&url) is awaited. The requests are
\* counted up to MaxFeedRequests + 1, which stands for "more".
FeedRequest ==
    /\ apc = "feed"
    /\ apc' = "feed_sent"
    /\ feed_requests' = IF feed_requests <= MaxFeedRequests THEN feed_requests + 1
                        ELSE feed_requests
    /\ UNCHANGED <<adapter, aop, params_limit, manga_id, offset, all_chapters, discovered,
                   url_index, fetch_failures, aret>>
    /\ AdaptersOnly

\* the rest of the turn: the feed answers `response`; after the last turn the
\* chapters are sorted and returned. The first MaxFeedRequests answers carry
\* any data, the later ones none.
FeedPage(response) ==
    /\ apc = "feed_sent"
    /\ feed_requests <= MaxFeedRequests \/ response.data = <<>>
    /\ LET mapped == [i \in 1..Len(response.data) |->
                        MapChapterDataToChapter(response.data[i], manga_id)]
           collected == all_chapters \o mapped
       IN  /\ all_chapters' = collected
           /\ IF response.total <= offset + response.limit
              THEN /\ discovered' = collected
                   /\ aret' = Ok(SortByNumber(collected))
                   /\ apc' = "done"
                   /\ UNCHANGED offset
              ELSE /\ offset' = offset + response.limit
                   /\ apc' = "feed"
                   /\ UNCHANGED <<discovered, aret>>
    /\ UNCHANGED <<adapter, aop, params_limit, manga_id, feed_requests, url_index,
                   fetch_failures>>
    /\ AdaptersOnly

\* a turn of the loop whose get_json(..).await? fails
FeedFails(e) ==
    /\ apc = "feed_sent"
    /\ fetch_failures' = Append(fetch_failures, e)
    /\ aret' = Err(e)
    /\ apc' = "done"
    /\ UNCHANGED <<adapter, aop, params_limit, manga_id, offset, all_chapters, feed_requests,
                   discovered, url_index>>
    /\ AdaptersOnly

\* ---- get_pages ----

Whitespace == {" ", "\n", "\t"}

RECURSIVE TrimStart(_)
TrimStart(cs) == IF cs # <<>> /\ Head(cs) \in Whitespace THEN TrimStart(Tail(cs)) ELSE cs

RECURSIVE TrimEnd(_)
TrimEnd(cs) ==
    IF cs # <<>> /\ cs[Len(cs)] \in Whitespace THEN TrimEnd(SubSeq(cs, 1, Len(cs) - 1))
    ELSE cs

\* str::trim
Trim(cs) == TrimEnd(TrimStart(cs))

\* str::replace(c, "")
RemoveChar(cs, c) == SelectSeq(cs, LAMBDA x : x # c)

\* str::contains and str::ends_with
Contains(cs, pat) == pat = <<>> \/ Find(cs, pat) # 0
EndsWith(cs, suf) ==
    Len(cs) >= Len(suf) /\ SubSeq(cs, Len(cs) - Len(suf) + 1, Len(cs)) = suf

KissMangaBaseUrl == <<"h", "t", "t", "p", "s", ":", "/", "/", "k", "i", "s", "s", "m", "a", "n", "g", "a", ".", "i", "n">>

\* an <img> as get_pages reads it: the attributes src, data-src,
\* data-lazy-src and data-original, each present or not
Img(src, data_src, data_lazy_src, data_original) ==
    [src |-> src, data_src |-> data_src, data_lazy_src |-> data_lazy_src,
     data_original |-> data_original]

Imgs ==
    [a |-> Img(Some(<<"h", "t", "t", "p", "s", ":", "/", "/", "c", ".", "i", "o", "/", "1", ".", "j", "p", "g">>), Nothing, Nothing, Nothing),
     b |-> Img(Nothing, Some(<<"/", "/", "c", ".", "i", "o", "/", "i", "m", "g", "/", "2", ".", "p", "n", "g">>), Nothing, Nothing),
     c |-> Img(Some(<<" ">> \o <<"/", "i", "m", "g", "/", "0", "3", ".", "w", "e", "b", "p">> \o <<"\n">>), Some(<<"h", "t", "t", "p", "s", ":", "/", "/", "c", ".", "i", "o", "/", "x", ".", "j", "p", "g">>),
               Nothing, Nothing),
     d |-> Img(Some(<<"/", "i", "m", "g", "/", "l", "o", "a", "d", "i", "n", "g", ".", "g", "i", "f">>), Nothing, Nothing, Nothing),
     e |-> Img(Some(<<"p", "/", "4", ".", "j", "p", "g">>), Nothing, Nothing, Nothing),
     f |-> Img(Nothing, Nothing, Nothing, Some(<<"p", "a", "g", "e", "s", "/", "0", "5", ".", "j", "p", "e", "g">>)),
     g |-> Img(Nothing, Nothing, Nothing, Nothing),
     h |-> Img(Some(<<"p", "a", "g", "e", "s", "/", "0", "6", ".", "j", "p", "e", "g">>), Nothing, Some(<<"h", "t", "t", "p", "s", ":", "/", "/", "c", ".", "i", "o", "/", "6", ".", "j", "p", "g">>), Nothing)]

ImgLists ==
    {<<>>,
     <<Imgs.a, Imgs.b, Imgs.c>>,
     <<Imgs.d, Imgs.e, Imgs.g>>,
     <<Imgs.c, Imgs.f, Imgs.d, Imgs.a>>,
     <<Imgs.h, Imgs.a>>}

KissMangaPageUrls == 4
KissMangaPageSelectors == 7

\* a chapter page as the selectors tried in turn see it
PageDocuments ==
    {[s \in 1..KissMangaPageSelectors |->
        IF s < k THEN <<>> ELSE IF s = k THEN first ELSE later] :
        k \in 1..KissMangaPageSelectors, first \in ImgLists, later \in ImgLists}

\* kissmanga.rs:237-242: the first of the four attributes that is present
ImgSource(img) ==
    IF img.src # Nothing THEN img.src
    ELSE IF img.data_src # Nothing THEN img.data_src
    ELSE IF img.data_lazy_src # Nothing THEN img.data_lazy_src
    ELSE img.data_original

\* src.trim().replace('\n', "").replace('\t', "")
CleanedSrc(src) == RemoveChar(RemoveChar(Trim(src), "\n"), "\t")

\* kissmanga.rs:249-254: a placeholder, or too short to be a URL
SkippedSrc(cleaned_src) ==
    \/ Contains(cleaned_src, <<"p", "l", "a", "c", "e", "h", "o", "l", "d", "e", "r">>)
    \/ Contains(cleaned_src, <<"l", "o", "a", "d", "i", "n", "g">>)
    \/ Len(cleaned_src) < 10

\* kissmanga.rs:257-265
AbsoluteUrl(cleaned_src) ==
    IF StartsWith(cleaned_src, <<"h", "t", "t", "p">>) THEN cleaned_src
    ELSE IF StartsWith(cleaned_src, <<"/", "/">>) THEN <<"h", "t", "t", "p", "s", ":">> \o cleaned_src
    ELSE IF StartsWith(cleaned_src, <<"/">>) THEN KissMangaBaseUrl \o cleaned_src
    ELSE KissMangaBaseUrl \o <<"/">> \o cleaned_src

\* kissmanga.rs:232-271: the pages of the images one selector finds
KissMangaPagesOf(imgs) ==
    LET kept == SelectIdx([i \in 1..Len(imgs) |->
                    ImgSource(imgs[i]) # Nothing
                    /\ ~SkippedSrc(CleanedSrc(ImgSource(imgs[i])[1]))], 1, {TRUE})
    IN  [k \in 1..Len(kept) |-> AbsoluteUrl(CleanedSrc(ImgSource(imgs[kept[k]])[1]))]

\* the src attributes the images of a selector carry, in order:
\* select_all_attr(.., "src")
SrcAttrs(imgs) ==
    LET kept == SelectIdx([i \in 1..Len(imgs) |-> imgs[i].src # Nothing], 1, {TRUE})
    IN  [k \in 1..Len(kept) |-> imgs[kept[k]].src[1]]

\* madara_configurable.rs:223-232: what the filter of get_pages keeps
MadaraKeepsPage(url) ==
    /\ ~Contains(url, <<"l", "o", "a", "d", "i", "n", "g">>)
    /\ ~Contains(url, <<"a", "d", "v", "e", "r", "t", "i", "s", "e", "m", "e", "n", "t">>)
    /\ ~Contains(url, <<"b", "a", "n", "n", "e", "r">>)
    /\ ~Contains(url, <<"f", "a", "v", "i", "c", "o", "n">>)
    /\ ~EndsWith(url, <<".", "g", "i", "f">>)
    /\ Len(url) > 10
    /\ \/ Contains(url, <<".", "j", "p", "g">>)
       \/ Contains(url, <<".", "p", "n", "g">>)
       \/ Contains(url, <<".", "j", "p", "e", "g">>)
       \/ Contains(url, <<".", "w", "e", "b", "p">>)

\* MangaDexPagesResponse: baseUrl, chapter.hash, chapter.data,
\* chapter.dataSaver
PagesResponses ==
    [base_url : {<<>>, <<"h", "t", "t", "p", "s", ":", "/", "/", "u", ".", "i", "o", "/">>, <<"u", ".", "i", "o">>},
     hash : {<<>>, <<"h">>},
     data : {<<>>, <<<<"1", ".", "p", "n", "g">>, <<"2", ".", "p", "n", "g">>>>},
     data_saver : {<<>>, <<<<"s", "1", ".", "j", "p", "g">>>>}]

\* format!("{}/{}/{}/{}", base_url.trim_end_matches('/'), quality, hash,
\* filename) with quality "data" or "data-saver"
MangaDexPageUrl(response, quality, filename) ==
    TrimEndMatches(response.base_url, "/") \o <<"/">> \o quality \o <<"/">> \o response.hash
        \o <<"/">> \o filename

\* page URLs that take dataSaver first and data only when dataSaver is empty
MangaDexPageUrlsSaverFirst(response) ==
    IF response.data_saver # <<>>
    THEN [i \in 1..Len(response.data_saver) |->
            MangaDexPageUrl(response, <<"d", "a", "t", "a", "-", "s", "a", "v", "e", "r">>, response.data_saver[i])]
    ELSE [i \in 1..Len(response.data) |->
            MangaDexPageUrl(response, <<"d", "a", "t", "a">>, response.data[i])]

\* mangadex.rs:476-503
MangaDexPageUrls(response) ==
    IF response.data # <<>>
    THEN [i \in 1..Len(response.data) |->
            MangaDexPageUrl(response, <<"d", "a", "t", "a">>, response.data[i])]
    ELSE IF response.data_saver # <<>>
    THEN [i \in 1..Len(response.data_saver) |->
            MangaDexPageUrl(response, <<"d", "a", "t", "a", "-", "s", "a", "v", "e", "r">>, response.data_saver[i])]
    ELSE <<>>

\* what a fetch may end with: "ok" or one of the errors
FetchOutcomes == {[kind |-> "ok", msg |-> ""]} \cup FetchErrors

\* MangaDexSource::get_pages: the chapter is fetched, then the at-home server;
\* either fetch failing ends the call with its error
MangaDexGetPages(info, athome, response) ==
    /\ AdapterCall("mgd", "pages", None, "")
    /\ apc' = "done"
    /\ IF info.kind # "ok"
       THEN /\ fetch_failures' = <<info>>
            /\ discovered' = <<>>
            /\ aret' = Err(info)
       ELSE IF athome.kind # "ok"
       THEN /\ fetch_failures' = <<athome>>
            /\ discovered' = <<>>
            /\ aret' = Err(athome)
       ELSE /\ fetch_failures' = <<>>
            /\ discovered' = IF response.data # <<>> THEN response.data
                             ELSE response.data_saver
            /\ aret' = IF response.hash = <<>>
                          THEN Err([kind |-> "Parse", msg |-> "Chapter hash is empty"])
                       ELSE IF response.base_url = <<>>
                          THEN Err([kind |-> "Parse", msg |-> "Base URL is empty"])
                       ELSE IF MangaDexPageUrls(response) = <<>>
                          THEN Err([kind |-> "NotFound", msg |-> "No pages found"])
                       ELSE Ok(MangaDexPageUrls(response))
    /\ AdaptersOnly

\* ConfigurableMadaraSource::get_pages, the chapter_pages selector finding
\* `imgs` in the page
MadaraGetPages(imgs) ==
    LET srcs == SrcAttrs(imgs)
        filtered == SelectSeq(srcs, MadaraKeepsPage)
    IN  /\ AdapterCall("mdr", "pages", None, "")
        /\ apc' = "done"
        /\ fetch_failures' = <<>>
        /\ discovered' = srcs
        /\ aret' = IF srcs = <<>>
                      THEN Err([kind |-> "NotFound", msg |-> "No pages found"])
                   ELSE IF filtered = <<>>
                      THEN Err([kind |-> "NotFound",
                                msg |-> "No valid pages found after filtering"])
                   ELSE Ok(filtered)
        /\ AdaptersOnly

\* the fetch of get_pages of the Madara adapter fails
MadaraGetPagesFails(e) ==
    /\ AdapterCall("mdr", "pages", None, "")
    /\ apc' = "done"
    /\ fetch_failures' = <<e>>
    /\ discovered' = <<>>
    /\ aret' = Err(e)
    /\ AdaptersOnly

\* KissMangaSource::get_pages begins with the first of possible_urls
KissMangaGetPages ==
    /\ AdapterCall("kmg", "pages", None, "")
    /\ apc' = "urls"
    /\ fetch_failures' = <<>>
    /\ discovered' = <<>>
    /\ aret' = Pending
    /\ AdaptersOnly

\* the end of KissManga's loop over possible_urls: the next URL, or NotFound
\* after the last
KissMangaNextUrl ==
    IF url_index + 1 = KissMangaPageUrls
    THEN /\ aret' = Err([kind |-> "NotFound", msg |-> "No pages found for chapter"])
         /\ apc' = "done"
    ELSE /\ UNCHANGED aret
         /\ UNCHANGED apc

\* one turn of the loop: get_text(chapter_url) returns the page `doc`; the
\* first selector that gives pages ends the call
KissMangaUrlFetched(doc) ==
    LET found == FirstFound([s \in 1..Len(doc) |-> KissMangaPagesOf(doc[s])], 1)
    IN  /\ apc = "urls"
        /\ url_index' = url_index + 1
        /\ IF found # <<>>
           THEN /\ discovered' =
                      FirstFound([s \in 1..Len(doc) |->
                          IF KissMangaPagesOf(doc[s]) = <<>> THEN <<>>
                          ELSE [i \in 1..Len(doc[s]) |->
                                  IF ImgSource(doc[s][i]) = Nothing THEN <<>>
                                  ELSE ImgSource(doc[s][i])[1]]], 1)
                /\ aret' = Ok(found)
                /\ apc' = "done"
           ELSE /\ UNCHANGED discovered
                /\ KissMangaNextUrl
        /\ UNCHANGED <<adapter, aop, params_limit, manga_id, offset, all_chapters,
                       feed_requests, fetch_failures>>
        /\ AdaptersOnly

\* one turn of the loop: get_text(chapter_url) fails, and the arm
\* `Err(_) => continue` goes on to the next URL
KissMangaUrlFails(e) ==
    /\ apc = "urls"
    /\ url_index' = url_index + 1
    /\ fetch_failures' = Append(fetch_failures, e)
    /\ KissMangaNextUrl
    /\ UNCHANGED <<adapter, aop, params_limit, manga_id, offset, all_chapters,
                   feed_requests, discovered>>
    /\ AdaptersOnly

InitAdapters ==
    /\ adapter = "mgd"
    /\ aop = "none"
    /\ apc = "idle"
    /\ params_limit = None
    /\ manga_id = ""
    /\ offset = 0
    /\ all_chapters = <<>>
    /\ feed_requests = 0
    /\ discovered = <<>>
    /\ url_index = 0
    /\ fetch_failures = <<>>
    /\ aret = Pending

NextAdapters ==
    \/ \E limit \in Limits, data \in MangaDataLists : MangaDexSearch(limit, data)
    \/ \E limit \in Limits, doc \in Documents(KissMangaSearchSelectors) :
          KissMangaSearch(limit, doc)
    \/ \E limit \in Limits, elements \in ElementLists : MadaraSearch(limit, elements)
    \/ \E a \in {"mgd", "kmg", "mdr"}, op \in {"search", "chapters"}, e \in FetchErrors :
          (a = "mgd" => op = "search") /\ FetchFails(a, op, e)
    \/ \E m \in AdapterMangaIds, doc \in Documents(KissMangaChapterSelectors) :
          KissMangaGetChapters(m, doc)
    \/ \E m \in AdapterMangaIds, elements \in ElementLists : MadaraGetChapters(m, elements)
    \/ \E m \in AdapterMangaIds : MangaDexGetChapters(m)
    \/ FeedRequest
    \/ \E response \in FeedResponses : FeedPage(response)
    \/ \E e \in FetchErrors : FeedFails(e)
    \/ \E info \in FetchOutcomes, athome \in FetchOutcomes, response \in PagesResponses :
          MangaDexGetPages(info, athome, response)
    \/ \E imgs \in ImgLists : MadaraGetPages(imgs)
    \/ \E e \in FetchErrors : MadaraGetPagesFails(e)
    \/ KissMangaGetPages
    \/ \E doc \in PageDocuments : KissMangaUrlFetched(doc)
    \/ \E e \in FetchErrors : KissMangaUrlFails(e)

----------------------------------------------------------------------------
(* The helper functions of src/src/download.rs and src/src/search.rs, each *)
(* applied to an argument drawn from a set of strings or lists.            *)

\* the bytes of a character in UTF-8: "U+3042" stands for the one character
\* HIRAGANA LETTER A, three bytes; the others used here are ASCII
Utf8Len(c) == IF c = "U+3042" THEN 3 ELSE 1

\* String::len: the length in bytes (a character has one to four)
ByteLen(cs) ==
    LET Count(w) == Cardinality({i \in 1..Len(cs) : Utf8Len(cs[i]) = w})
    IN  Count(1) + 2 * Count(2) + 3 * Count(3) + 4 * Count(4)

\* what a call ends with: a value, or a panic
Returned(v) == [panic |-> FALSE, val |-> v]
Panicked == [panic |-> TRUE, val |-> <<>>]

\* String::truncate(n) of a string longer than n bytes: the characters of the
\* first n bytes, and a panic when byte n is not a character boundary
TruncateBytes(cs, n) ==
    LET boundaries == {k \in (n \div 4)..n : k <= Len(cs) /\ ByteLen(SubSeq(cs, 1, k)) = n}
    IN  IF boundaries = {} THEN Panicked
        ELSE Returned(SubSeq(cs, 1, CHOOSE k \in boundaries : TRUE))

\* let invalid_chars = ['/', '\\', ':', '*', '?', '"', '<', '>', '|'];
InvalidChars == <<"/", "\\", ":", "*", "?", "\"", "<", ">", "|">>

RECURSIVE ReplaceInvalid(_, _)
\* for &ch in &invalid_chars { sanitized = sanitized.replace(ch, "_"); }
ReplaceInvalid(cs, invalid) ==
    IF invalid = <<>> THEN cs
    ELSE ReplaceInvalid(ReplaceChar(cs, Head(invalid), "_"), Tail(invalid))

\* if sanitized.len() > 200 { sanitized.truncate(200); }
NameLimit == 200

\* download.rs: sanitize_filename(name)
SanitizeFilename(name) ==
    LET trimmed == Trim(ReplaceInvalid(name, InvalidChars))
        cut == IF ByteLen(trimmed) > NameLimit
               THEN TruncateBytes(trimmed, NameLimit)
               ELSE Returned(trimmed)
    IN  IF cut.panic THEN Panicked
        ELSE IF cut.val = <<>> THEN Returned(<<"u", "n", "t", "i", "t", "l", "e", "d">>)
        ELSE cut

\* n times the character c
Repeat(c, n) == [i \in 1..n |-> c]

\* the names sanitize_filename is applied to: a head, a run of one character
\* (short, or about as long as the limit), a tail
NameHeads ==
    {<<>>, <<" ">>, <<"a", "/", "b">>, <<"x", ":", "y", "*">>,
     <<" ", "\t">> \o <<"t", "\\", "z">>, <<"\"", "<", "q", ">", "|", "?">>}
NameRuns ==
    {Repeat("a", n) : n \in {0, 1} \cup (NameLimit - 3)..(NameLimit + MaxOver)}
    \cup {Repeat("U+3042", n) : n \in (NameLimit \div 3)..(NameLimit \div 3 + MaxOver)}
NameTails == {<<>>, <<" ">>, <<" ", "b">>, <<"|">>}
Names == {h \o r \o t : h \in NameHeads, r \in NameRuns, t \in NameTails}

\* sanitize_filename(name)
CallSanitizeFilename(name) ==
    /\ ucall = "none"
    /\ ucall' = "sanitize_filename"
    /\ uarg' = name
    /\ uout' = SanitizeFilename(name)
    /\ UNCHANGED uout2
    /\ HelpersOnly

\* sanitize_filename applied to the name the first call returned
CallSanitizeFilenameAgain ==
    /\ ucall = "sanitize_filename"
    /\ ~uout.panic
    /\ ucall' = "sanitize_filename twice"
    /\ uout2' = SanitizeFilename(uout.val)
    /\ UNCHANGED <<uarg, uout>>
    /\ HelpersOnly

\* ---- search.rs: SearchResultExt::dedupe_by_title ----

\* the key under which a title counts as seen, compared as written
TitleKeyExact(title) == title

\* manga.title.to_lowercase()
TitleKey(title) == ToLowercase(title)

RECURSIVE Retain(_, _)
\* self.retain(|manga| seen.insert(manga.title.to_lowercase())): HashSet::insert
\* is true for a key not yet in `seen`, which it then holds
Retain(list, seen) ==
    IF list = <<>> THEN <<>>
    ELSE IF TitleKey(Head(list).title) \in seen THEN Retain(Tail(list), seen)
    ELSE <<Head(list)>> \o Retain(Tail(list), seen \cup {TitleKey(Head(list).title)})

\* let mut seen = HashSet::new(); self.retain(..); self
DedupeByTitle(list) == Retain(list, {})

\* the Manga of the lists: id and title
TitledManga ==
    {[id |-> "1", title |-> <<"R", "a", "n">>], [id |-> "2", title |-> <<"r", "a", "n">>],
     [id |-> "3", title |-> <<"R", "A", "N">>], [id |-> "4", title |-> <<"T", "e", "x">>]}
MangaLists == SeqsUpTo(TitledManga, MaxList)

\* list.dedupe_by_title()
CallDedupeByTitle(list) ==
    /\ ucall = "none"
    /\ ucall' = "dedupe_by_title"
    /\ uarg' = list
    /\ uout' = Returned(DedupeByTitle(list))
    /\ UNCHANGED uout2
    /\ HelpersOnly

\* ---- search.rs: sort_by_relevance ----

\* char::is_ascii of every character of the title
AllAscii(cs) == \A i \in 1..Len(cs) : Utf8Len(cs[i]) = 1

\* search.rs: calculate_relevance_score(title, description, tags, authors)
CalculateRelevanceScore(title, description, tags, authors) ==
    (IF description # Nothing /\ Trim(description[1]) # <<>> THEN 10 ELSE 0)
    + (IF authors # <<>> THEN 5 ELSE 0)
    + (IF Len(tags) >= 3 THEN 5 ELSE 0)
    + (IF Len(tags) >= 5 THEN 5 ELSE 0)
    + (IF ByteLen(title) <= 20 THEN 15 ELSE IF ByteLen(title) <= 40 THEN 10 ELSE 5)
    + (IF Contains(title, <<"O", "f", "f", "i", "c", "i", "a", "l">>) \/ Contains(title, <<"C", "o", "l", "o", "r", "e", "d">>) THEN 8 ELSE 0)
    + (IF AllAscii(title) THEN 3 ELSE 0)

\* the score of a Manga
ScoreOf(manga) ==
    CalculateRelevanceScore(manga.title, manga.description, manga.tags, manga.authors)

\* Ord::cmp of two integers
Cmp(x, y) == IF x < y THEN "Less" ELSE IF x > y THEN "Greater" ELSE "Equal"

\* a comparison by score alone: score_b.cmp(&score_a)
CompareByScoreOnly(a, b) == Cmp(ScoreOf(b), ScoreOf(a))

\* the closure of sort_by_relevance:
\* score_b.cmp(&score_a).then_with(|| a.title.len().cmp(&b.title.len()))
CompareByRelevance(a, b) ==
    IF Cmp(ScoreOf(b), ScoreOf(a)) # "Equal" THEN Cmp(ScoreOf(b), ScoreOf(a))
    ELSE Cmp(ByteLen(a.title), ByteLen(b.title))

RECURSIVE InsertByRelevance(_, _)
\* x put behind the elements of `sorted` that are not Greater than it
InsertByRelevance(sorted, x) ==
    IF sorted = <<>> THEN <<x>>
    ELSE IF CompareByRelevance(x, Head(sorted)) = "Less" THEN <<x>> \o sorted
    ELSE <<Head(sorted)>> \o InsertByRelevance(Tail(sorted), x)

RECURSIVE SortByRelevance(_)
\* slice::sort_by with that closure: a stable sort
SortByRelevance(list) ==
    IF list = <<>> THEN <<>>
    ELSE InsertByRelevance(SortByRelevance(SubSeq(list, 1, Len(list) - 1)), list[Len(list)])

\* types.rs Manga, the fields sort_by_relevance reads
ScoredManga ==
    {[id |-> "1", title |-> <<"R", "a", "n">>, description |-> Some(<<"x">>), tags |-> <<>>, authors |-> <<>>],
     [id |-> "2", title |-> <<"T", "e", "x">>, description |-> Some(<<" ", " ">>), tags |-> <<>>, authors |-> <<>>],
     [id |-> "3", title |-> <<"R", "a", "n", " ", "O", "f", "f", "i", "c", "i", "a", "l">>, description |-> Nothing,
      tags |-> <<"a", "b", "c">>, authors |-> <<"o">>],
     [id |-> "4", title |-> <<"R", "a">>, description |-> Some(<<"y">>), tags |-> <<>>, authors |-> <<>>],
     [id |-> "5", title |-> <<"N", "a", "t">>, description |-> Some(<<"z">>), tags |-> <<>>, authors |-> <<>>],
     [id |-> "6", title |-> <<"U+3042", "U+3042">>, description |-> Some(<<>>),
      tags |-> <<"a", "b", "c", "d", "e">>, authors |-> <<>>],
     [id |-> "7", title |-> Repeat("a", 21), description |-> Nothing, tags |-> <<>>,
      authors |-> <<>>],
     [id |-> "8", title |-> Repeat("a", 39) \o <<" ", "C", "o", "l", "o", "r", "e", "d">>, description |-> Nothing,
      tags |-> <<>>, authors |-> <<"o">>]}
ScoredLists == SeqsUpTo(ScoredManga, MaxList)

\* list.sort_by_relevance()
CallSortByRelevance(list) ==
    /\ ucall = "none"
    /\ ucall' = "sort_by_relevance"
    /\ uarg' = list
    /\ uout' = Returned(SortByRelevance(list))
    /\ UNCHANGED uout2
    /\ HelpersOnly

\* ---- download.rs: extract_extension ----

\* str::find('.'), the first dot: 0 for None
FirstDot(path) ==
    LET dots == {i \in 1..Len(path) : path[i] = "."}
    IN  IF dots = {} THEN 0 ELSE CHOOSE i \in dots : \A j \in dots : i <= j

\* path.rfind('.'), the last dot: 0 for None
LastDot(path) ==
    LET dots == {i \in 1..Len(path) : path[i] = "."}
    IN  IF dots = {} THEN 0 ELSE CHOOSE i \in dots : \A j \in dots : i >= j

\* if !ext.is_empty() && ext.len() <= 10
ExtensionLimit == 10

\* download.rs: extract_extension(url)
ExtractExtension(url) ==
    LET clean_url == SplitOn(SplitOn(url, "?", <<>>)[1], "#", <<>>)[1]
        segments == SplitOn(clean_url, "/", <<>>)
        path == segments[Len(segments)]
        dot_pos == LastDot(path)
        ext == From(path, dot_pos + 1)
    IN  IF dot_pos # 0 /\ ext # <<>> /\ ByteLen(ext) <= ExtensionLimit
        THEN Some(ToLowercase(ext))
        ELSE Nothing

\* "https://x/" + name + ".jpg?a=b"
JpgUrl(name) == <<"h", "t", "t", "p", "s", ":", "/", "/", "x", "/">> \o name \o <<".", "j", "p", "g", "?", "a", "=", "b">>

\* the names put into that URL: not empty, of letters, dots, slashes and the
\* two characters that end the path of a URL
UrlNames == SeqsUpTo({"a", ".", "/", "?", "#"}, MaxNameLen) \ {<<>>}

\* the URLs extract_extension is applied to
ExtensionUrls ==
    {JpgUrl(name) : name \in UrlNames}
    \cup {<<>>, <<"h", "t", "t", "p", "s", ":", "/", "/", "x", "/", "i", "m", "a", "g", "e">>, <<"h", "t", "t", "p", "s", ":", "/", "/", "x", "/", "a", ".", "T", "X", "T", "#", "f">>, <<"h", "t", "t", "p", "s", ":", "/", "/", "x", "/">>,
          <<"h", "t", "t", "p", "s", ":", "/", "/", "x", "/", "a", ".", "v", "e", "r", "y", "l", "o", "n", "g", "e", "x", "t", "e", "n", "s", "i", "o", "n">>, <<"n", "o", "t", "-", "a", "-", "u", "r", "l">>}

\* extract_extension(url)
CallExtractExtension(url) ==
    /\ ucall = "none"
    /\ ucall' = "extract_extension"
    /\ uarg' = url
    /\ uout' = Returned(ExtractExtension(url))
    /\ UNCHANGED uout2
    /\ HelpersOnly

\* ---- net/json.rs: extract_path ----

\* serde_json::Value, the variants the documents here use
JString(cs) == [kind |-> "string", str |-> cs]
JArray(items) == [kind |-> "array", items |-> items]
JObject(members) == [kind |-> "object", members |-> members]

\* Value::get(key) with a &str key: the member of an object with that name;
\* None for a name the object lacks and for every value that is no object
ValueGet(value, key) ==
    IF value.kind = "object" /\ key \in DOMAIN value.members
    THEN Some(value.members[key])
    ELSE Nothing

RECURSIVE Navigate(_, _)
\* for key in path.split('.') { current = current.get(key)?; } Some(current.clone())
Navigate(current, keys) ==
    IF keys = <<>> THEN Some(current)
    ELSE LET next == ValueGet(current, Head(keys))
         IN  IF next = Nothing THEN Nothing ELSE Navigate(next[1], Tail(keys))

\* json.rs: extract_path(json, path)
ExtractPath(json, path) == Navigate(json, SplitOn(path, ".", <<>>))

\* {"name": name}
Named(name) == JObject((<<"n", "a", "m", "e">> :> JString(name)))

\* the documents extract_path is applied to: a response with a title, an
\* array of chapters and an object whose member is called "0"
JsonDocuments ==
    {JObject((<<"d", "a", "t", "a">> :> JObject(
         (<<"t", "i", "t", "l", "e">> :> JString(<<"T">>))
         @@ (<<"c", "h", "a", "p", "t", "e", "r", "s">> :> JArray(chapters))
         @@ (<<"i", "n", "d", "e", "x">> :> JObject((<<"0">> :> Named(<<"E">>))))))) :
       chapters \in {<<>>, <<Named(<<"A">>)>>, <<Named(<<"C">>), Named(<<"A">>)>>,
                     <<JString(<<"A">>), Named(<<"C">>)>>}}

\* the paths asked for
JsonPaths ==
    {<<"d", "a", "t", "a">>, <<"d", "a", "t", "a", ".", "t", "i", "t", "l", "e">>, <<"d", "a", "t", "a", ".", "c", "h", "a", "p", "t", "e", "r", "s">>, <<"d", "a", "t", "a", ".", "c", "h", "a", "p", "t", "e", "r", "s", ".", "0">>,
     <<"d", "a", "t", "a", ".", "c", "h", "a", "p", "t", "e", "r", "s", ".", "0", ".", "n", "a", "m", "e">>, <<"d", "a", "t", "a", ".", "c", "h", "a", "p", "t", "e", "r", "s", ".", "1", ".", "n", "a", "m", "e">>, <<"d", "a", "t", "a", ".", "c", "h", "a", "p", "t", "e", "r", "s", ".", "0", ".", "t", "i", "t", "l", "e">>,
     <<"d", "a", "t", "a", ".", "i", "n", "d", "e", "x", ".", "0", ".", "n", "a", "m", "e">>, <<"d", "a", "t", "a", ".", "i", "n", "d", "e", "x", ".", "0">>, <<"d", "a", "t", "a", ".", "m", "i", "s", "s", "i", "n", "g">>, <<"d", "a", "t", "a", ".", "t", "i", "t", "l", "e", ".", "0">>,
     <<"d", "a", "t", "a", ".", ".", "t", "i", "t", "l", "e">>, <<"t", "i", "t", "l", "e">>, <<>>}

\* extract_path(json, path)
CallExtractPath(json, path) ==
    /\ ucall = "none"
    /\ ucall' = "extract_path"
    /\ uarg' = [json |-> json, path |-> path]
    /\ uout' = Returned(ExtractPath(json, path))
    /\ UNCHANGED uout2
    /\ HelpersOnly

InitHelpers ==
    /\ ucall = "none"
    /\ uarg = <<>>
    /\ uout = Returned(<<>>)
    /\ uout2 = Returned(<<>>)

NextHelpers ==
    \/ \E name \in Names : CallSanitizeFilename(name)
    \/ CallSanitizeFilenameAgain
    \/ \E list \in MangaLists : CallDedupeByTitle(list)
    \/ \E list \in ScoredLists : CallSortByRelevance(list)
    \/ \E url \in ExtensionUrls : CallExtractExtension(url)
    \/ \E json \in JsonDocuments, path \in JsonPaths : CallExtractPath(json, path)

----------------------------------------------------------------------------
(* AppState: pagination of the terminal interface (src/src/tui.rs:54-113). *)

\* usize::MAX + 1
UsizeLimit == Pow2(UsizeBits)

\* items_per_page as AppState::new sets it
DefaultItemsPerPage == 20

\* the values items_per_page is fixed at
ItemsPerPageValues == {1, 3, DefaultItemsPerPage}

\* usize +, - and *: on overflow a panic where the build checks for it, the
\* value modulo 2^width where it does not
UsizeOf(n) ==
    IF n \in 0..(UsizeLimit - 1) THEN Returned(n)
    ELSE IF overflow_checks THEN Panicked
    ELSE Returned(n % UsizeLimit)

\* (self.total_items + self.items_per_page - 1) / self.items_per_page
PagesOf(total, per_page) ==
    LET sum == UsizeOf(total + per_page)
    IN  IF sum.panic THEN Panicked
        ELSE LET less == UsizeOf(sum.val - 1)
             IN  IF less.panic THEN Panicked ELSE Returned(less.val \div per_page)

\* AppState::total_pages
TotalPages ==
    IF total_items = 0 THEN Returned(1) ELSE PagesOf(total_items, items_per_page)

Min(x, y) == IF x <= y THEN x ELSE y
Max(x, y) == IF x >= y THEN x ELSE y

\* AppState::current_page_range
CurrentPageRange ==
    LET start == UsizeOf(current_page * items_per_page)
    IN  IF start.panic THEN Panicked
        ELSE LET sum == UsizeOf(start.val + items_per_page)
             IN  IF sum.panic THEN Panicked
                 ELSE Returned(<<start.val, Max(Min(sum.val, total_items), start.val)>>)

\* AppState::new() and the assignment of the public field items_per_page,
\* before any other call; the build is what it is from the start
Configure(per_page, checks) ==
    /\ tcall = "none"
    /\ tcall' = "configure"
    /\ items_per_page' = per_page
    /\ overflow_checks' = checks
    /\ UNCHANGED <<current_page, total_items, page_before, tret>>
    /\ TuiOnly

\* AppState::set_total_items(total)
SetTotalItems(total) ==
    /\ ~tret.panic
    /\ tcall' = "set_total_items"
    /\ page_before' = current_page
    /\ total_items' = total
    /\ current_page' = 0
    /\ tret' = Returned(TRUE)
    /\ UNCHANGED <<items_per_page, overflow_checks>>
    /\ TuiOnly

\* AppState::next_page
NextPage ==
    /\ ~tret.panic
    /\ tcall' = "next_page"
    /\ page_before' = current_page
    /\ LET max_page == PagesOf(total_items, items_per_page)
           next == UsizeOf(current_page + 1)
       IN  IF max_page.panic \/ next.panic
           THEN tret' = Panicked /\ UNCHANGED current_page
           ELSE IF next.val < max_page.val
           THEN current_page' = next.val /\ tret' = Returned(TRUE)
           ELSE tret' = Returned(FALSE) /\ UNCHANGED current_page
    /\ UNCHANGED <<items_per_page, total_items, overflow_checks>>
    /\ TuiOnly

\* AppState::previous_page
PreviousPage ==
    /\ ~tret.panic
    /\ tcall' = "previous_page"
    /\ page_before' = current_page
    /\ IF current_page > 0
       THEN current_page' = current_page - 1 /\ tret' = Returned(TRUE)
       ELSE tret' = Returned(FALSE) /\ UNCHANGED current_page
    /\ UNCHANGED <<items_per_page, total_items, overflow_checks>>
    /\ TuiOnly

\* AppState::new()
InitTui ==
    /\ current_page = 0
    /\ items_per_page = DefaultItemsPerPage
    /\ total_items = 0
    /\ overflow_checks = FALSE
    /\ tcall = "none"
    /\ page_before = 0
    /\ tret = Returned(TRUE)

NextTui ==
    \/ \E per_page \in ItemsPerPageValues, checks \in BOOLEAN : Configure(per_page, checks)
    \/ \E total \in 0..(UsizeLimit - 1) : SetTotalItems(total)
    \/ NextPage
    \/ PreviousPage

----------------------------------------------------------------------------
(* The specifications: each part of the library runs on its own, the       *)
(* others at rest.                                                         *)

\* max_retries as HttpClient::new sets it
DefaultMaxRetries == 3

Init ==
    /\ InitEngine /\ InitLimiter /\ InitHttp /\ max_retries = DefaultMaxRetries
    /\ InitDownload /\ InitAdapters /\ InitHelpers /\ InitTui

InitAnyClient ==
    /\ InitEngine /\ InitLimiter /\ InitHttp /\ max_retries \in 0..MaxRetries
    /\ InitDownload /\ InitAdapters /\ InitHelpers /\ InitTui

Next ==
    \/ \E id \in AdapterIds : Add(id)
    \/ Group
    \/ FlattenStart
    \/ \E i \in 1..MaxSources, o \in SearchOutcomes : SearchReturns(i, o)
    \/ JoinAll
    \/ \E id \in AdapterIds : FromSource(id)
    \/ \E o \in SearchOutcomes : FromSourceReturns(o)

Spec == Init /\ [][Next]_vars

SpecLimiter == Init /\ [][NextLimiter]_vars

SpecTui == Init /\ [][NextTui]_vars

SpecHttp == InitAnyClient /\ [][NextHttp]_vars

\* every await of get completes: the rate limiter's wait and the back-off
\* sleeps are finite, and the request ends with a response or an error
SpecHttpFair ==
    /\ SpecHttp
    /\ WF_vars(GetRateLimit)
    /\ WF_vars(\E resp \in Responses : GetResponse(resp))
    /\ WF_vars(GetBackoffEnds)

SpecDownload == Init /\ [][NextDownload]_vars

SpecAdapters == Init /\ [][NextAdapters]_vars

\* the feed responses by what decides the paging: every total and limit,
\* with no data or one page of it
PagingResponses ==
    {response \in FeedResponses : response.data \in {<<>>, <<FeedItems.a, FeedItems.c>>}}

\* MangaDexSource::get_chapters alone
NextFeed ==
    \/ \E m \in AdapterMangaIds : MangaDexGetChapters(m)
    \/ FeedRequest
    \/ \E response \in PagingResponses : FeedPage(response)
    \/ \E e \in FetchErrors : FeedFails(e)

\* the awaits of fetch_all_chapters complete: a request that is sent ends
\* with a response or an error, and the loop goes on to its next request
SpecFeedFair == Init /\ [][NextFeed]_vars /\ WF_vars(NextFeed)

SpecHelpers == Init /\ [][NextHelpers]_vars

----------------------------------------------------------------------------
(* Properties of the fan-out search.                                       *)

\* what adapter i's successful search contributes: its Manga, in its order,
\* carrying the id of adapter i
Produced(i) ==
    [k \in 1..Len(raws[i].val) |-> [id |-> raws[i].val[k].id, source_id |-> sources[i]]]

FlattenReturned == ret.op = "flat" /\ call = "none"
GroupReturned == ret.op = "group" /\ call = "none"
FromSourceReturned == ret.op = "from" /\ call = "none" /\ raws # <<>>

\* C1: if at least one adapter's search succeeds (even with an empty list),
\* flatten() returns success with the concatenation of the successful adapters'
\* results in registration order, the failing adapters dropped.
C1_FlattenSucceedsIfAnySucceeds ==
    (FlattenReturned /\ \E i \in 1..Len(raws) : raws[i].ok)
        => /\ ret.val.ok
           /\ ret.val.val =
                Flatten([i \in 1..Len(raws) |-> IF raws[i].ok THEN Produced(i) ELSE <<>>])

\* C2: group() returns exactly one (source_id, result) entry per registered
\* adapter, in registration order, each tagged with the id of the adapter that
\* produced the outcome, failures kept in place, whatever the completion order.
C2_GroupOnePerAdapterInOrder ==
    GroupReturned
        => /\ Len(ret.val) = Len(sources)
           /\ \A i \in 1..Len(sources) :
                /\ ret.val[i].source_id = sources[i]
                /\ ret.val[i].result.ok = raws[i].ok
                /\ raws[i].ok => ret.val[i].result.val = Produced(i)
                /\ ~raws[i].ok => ret.val[i].result = raws[i]

\* C2 witness: two adapters, the second completed first, one of them failed.
C2_Witness ==
    /\ GroupReturned
    /\ Len(sources) = 2
    /\ completed = <<2, 1>>
    /\ raws[1].ok /\ raws[1].val # <<>>
    /\ ~raws[2].ok

\* C3: every Manga returned by flatten(), group() or from_source(id) carries
\* the id of the adapter whose search produced it, whatever the adapter wrote;
\* for from_source(id) that is id.
C3_SourceIdIsProducer ==
    /\ (FlattenReturned /\ ret.val.ok)
          => ret.val.val =
               Flatten([i \in 1..Len(raws) |-> IF raws[i].ok THEN Produced(i) ELSE <<>>])
    /\ GroupReturned
          => \A i \in 1..Len(ret.val) :
               ret.val[i].result.ok
                  => \A k \in 1..Len(ret.val[i].result.val) :
                        ret.val[i].result.val[k].source_id = sources[i]
    /\ (FromSourceReturned /\ ret.val.ok)
          => /\ sources[SourcesGet(target)] = target
             /\ Len(ret.val.val) = Len(raws[1].val)
             /\ \A k \in 1..Len(ret.val.val) :
                  /\ ret.val.val[k].source_id = target
                  /\ ret.val.val[k].id = raws[1].val[k].id

\* C3 witness: from_source("kmg") returned a Manga that the adapter had marked
\* as coming from "mgd".
C3_Witness ==
    /\ FromSourceReturned
    /\ target = "kmg"
    /\ ret.val.ok
    /\ \E k \in 1..Len(raws[1].val) : raws[1].val[k].source_id = "mgd"

\* C8: when every registered adapter's search fails (at least one registered),
\* flatten() fails with Other("All sources failed: " ...) holding exactly one
\* "<id>: <error>" entry per adapter, in registration order.
C8_AllFailedMessage ==
    (FlattenReturned /\ Len(raws) > 0 /\ \A i \in 1..Len(raws) : ~raws[i].ok)
        => /\ ~ret.val.ok
           /\ ret.val.err.kind = "Other"
           /\ ret.val.err.msg =
                <<"All sources failed: ">>
                   \o Join([i \in 1..Len(raws) |->
                               <<sources[i], ": ">> \o ErrorDisplay(raws[i].err)],
                           <<", ">>)

\* C8 witness: two adapters failed with different errors.
C8_Witness ==
    /\ FlattenReturned
    /\ Len(raws) = 2
    /\ ~raws[1].ok /\ ~raws[2].ok
    /\ raws[1] # raws[2]
    /\ sources[1] # sources[2]

----------------------------------------------------------------------------
(* Properties of the rate limiter.                                         *)

\* C4: for any key and any number of callers of wait(key), overlapping or
\* not, two consecutive returns of wait(key) are at least the configured
\* delay apart.
C4_ConsecutiveReturnsSpaced ==
    \A k \in Keys :
        prev_return[k] >= 0 => last_return[k] - prev_return[k] >= Delay

----------------------------------------------------------------------------
(* Properties of HttpClient::get.                                          *)

\* every request of the call so far was answered 429 with Retry-After: h
AllRateLimited(h) ==
    /\ requests # <<>>
    /\ \A i \in 1..Len(requests) :
          /\ requests[i].kind = "status"
          /\ requests[i].code = 429
          /\ requests[i].retry_after = h.text

\* C5: with max_retries = R, when the server answers every request of one
\* get(url) call with 429 and Retry-After: k, get issues at most R + 1
\* requests and then fails with RateLimit whose retry_after is k.
C5_RateLimitedGivesUp ==
    \A h \in RetryAfterHeaders :
        (h.seconds # None /\ AllRateLimited(h))
            => /\ Len(requests) <= max_retries + 1
               /\ hpc # "done" => Len(requests) <= max_retries
               /\ hpc = "done"
                    => /\ ~hret.ok
                       /\ hret.kind = "RateLimit"
                       /\ hret.retry_after = h.seconds
                       /\ Len(requests) = max_retries + 1

\* C5 witness: a client with max_retries = 2 gave up after three 429 answers
\* carrying Retry-After: 12.
C5_Witness ==
    /\ hpc = "done"
    /\ max_retries = 2
    /\ Len(requests) = 3
    /\ \E h \in RetryAfterHeaders : h.seconds = 12 /\ AllRateLimited(h)

(* C6: in the default download_chapter, a page whose response is not 2xx   *)
(* is skipped: after such a page the call goes on with the next page, or,  *)
(* the page being the last, returns the chapter directory.                 *)
C6_DefaultSkipsFailedPage ==
    (/\ dimpl = "default"
     /\ fetched # <<>>
     /\ fetched[Len(fetched)] = "status")
        => \/ dpc = "loop"
           \/ dpc = "done" /\ dret.ok /\ dret.path = ChapterDir(dimpl, chapter_id)

(* C7: download_chapter (the default and KissManga's) makes and writes     *)
(* only output_dir/chapter_<id with every '/' replaced by '_'>, one        *)
(* directory level below output_dir, and each file in it is                *)
(* page_<i, three digits>.<ext> of some page i.                            *)
C7_WritesOnlyIntoSanitizedChapterDir ==
    LET chapter_dir == Append(OutputDir, ChapterDirNameSanitized(chapter_id))
    IN  /\ dirs \subseteq {OutputDir, chapter_dir}
        /\ \A f \in files :
              \E i \in 0..(Len(pages) - 1) :
                 f = Append(chapter_dir, PageFileName(i, pages[i + 1]))

(* C9: for every adapter and every answer of the remote, a search with     *)
(* params.limit = Some(n) that succeeds returns at most n Manga.           *)
C9_SearchHonorsLimit ==
    (aop = "search" /\ apc = "done" /\ aret.ok /\ params_limit # None)
        => Len(aret.val) <= params_limit

\* the chapters of s whose number is n, in the order of s
WithNumber(s, n) == SelectSeq(s, LAMBDA c : c.number = n)

(* C10: for every adapter and every manga id m, every chapter of a         *)
(* successful get_chapters(m) has manga_id = m and the adapter's id as     *)
(* source_id; no chapter is followed by one of a smaller number; and the   *)
(* chapters of one number stand in the order they were discovered in.      *)
C10_ChaptersTaggedAndAscending ==
    (aop = "chapters" /\ apc = "done" /\ aret.ok) =>
        /\ \A i \in 1..Len(aret.val) :
              aret.val[i].manga_id = manga_id /\ aret.val[i].source_id = adapter
        /\ \A i, j \in 1..Len(aret.val) :
              i < j => PartialCmp(aret.val[j].number, aret.val[i].number) # "Less"
        /\ \A i \in 1..Len(aret.val) :
              ~aret.val[i].number.nan =>
                 WithNumber(aret.val, aret.val[i].number)
                    = WithNumber(discovered, aret.val[i].number)

\* a string with a scheme ("<scheme>://...") or an absolute path ("/...")
UrlShaped(u) == StartsWith(u, <<"/">>) \/ Find(u, <<":", "/", "/">>) > 1

RECURSIVE InRemoteOrder(_, _)
\* the pages stand in the order of the remote's entries they were made from:
\* each page holds the (cleaned) text of an entry, later pages of later entries
InRemoteOrder(result, remote) ==
    IF result = <<>> THEN TRUE
    ELSE IF remote = <<>> THEN FALSE
    ELSE IF Contains(Head(result), CleanedSrc(Head(remote)))
         THEN InRemoteOrder(Tail(result), Tail(remote))
         ELSE InRemoteOrder(result, Tail(remote))

PagesReturned == aop = "pages" /\ apc = "done" /\ aret.ok

(* C11: for every adapter, a successful get_pages returns a non-empty      *)
(* sequence, every element of it has a scheme or is an absolute path, and  *)
(* the elements stand in the order of the remote response.                 *)
C11_PagesNonEmptyUrlShapedInOrder ==
    PagesReturned =>
        /\ aret.val # <<>>
        /\ \A i \in 1..Len(aret.val) : UrlShaped(aret.val[i])
        /\ InRemoteOrder(aret.val, discovered)

(* C12: an adapter never recovers from or replaces the failure of a fetch  *)
(* (the fetcher's own retries apart): when a fetch issued by search,       *)
(* get_chapters or get_pages failed, the operation returns that error.     *)
C12_FetchErrorBubblesUp ==
    (apc = "done" /\ fetch_failures # <<>>) =>
        /\ ~aret.ok
        /\ \E i \in 1..Len(fetch_failures) : aret.err = fetch_failures[i]

(* C13: within download_chapter the starts of the GETs of successive pages *)
(* of the chapter are at least the source's configured delay apart.        *)
C13_PageRequestsSpaced ==
    \A i \in 1..(Len(page_starts) - 1) : page_starts[i + 1] - page_starts[i] >= Delay

\* every request of the call so far ended in a transport error
AllTransportErrors ==
    requests # <<>> /\ \A i \in 1..Len(requests) : requests[i].kind = "transport"

ChaptersReturned == aop = "chapters" /\ apc = "done" /\ aret.ok

(* C15: every Chapter returned by get_chapters has a non-empty title (an   *)
(* empty or absent remote title being replaced by "Chapter N").            *)
C15_ChapterTitlesNonEmpty ==
    ChaptersReturned => \A i \in 1..Len(aret.val) : aret.val[i].title # <<>>

----------------------------------------------------------------------------
(* Properties of the helper functions.                                     *)

(* C16: for every input s, sanitize_filename(s) returns a name that holds  *)
(* none of / \ : * ? " < > |, is at most 200 bytes long and is not empty.  *)
C16_SanitizedNameIsSafe ==
    ucall \in {"sanitize_filename", "sanitize_filename twice"} =>
        /\ ~uout.panic
        /\ \A i \in 1..Len(uout.val) :
              \A k \in 1..Len(InvalidChars) : uout.val[i] # InvalidChars[k]
        /\ ByteLen(uout.val) <= NameLimit
        /\ uout.val # <<>>

(* C17: sanitize_filename is idempotent: applied to its own result it      *)
(* returns that result, also for inputs it truncated.                      *)
C17_SanitizeIdempotent ==
    ucall = "sanitize_filename twice" => uout2 = uout

\* the positions of list that hold the first element of their lower-cased title
FirstOfTitle(list) ==
    {i \in 1..Len(list) :
        \A j \in 1..(i - 1) : ToLowercase(list[j].title) # ToLowercase(list[i].title)}

LowerTitles(list) == {ToLowercase(list[i].title) : i \in 1..Len(list)}

(* C18: dedupe_by_title(L) is L restricted, in order, to the first element *)
(* of each distinct lower-cased title: it is no longer than L and has the  *)
(* same set of lower-cased titles.                                         *)
C18_DedupeKeepsFirstOfEachTitle ==
    ucall = "dedupe_by_title" =>
        LET firsts == FirstOfTitle(uarg)
            Nth(k) == CHOOSE i \in firsts : Cardinality({j \in firsts : j <= i}) = k
        IN  /\ ~uout.panic
            /\ Len(uout.val) = Cardinality(firsts)
            /\ \A k \in 1..Len(uout.val) : uout.val[k] = uarg[Nth(k)]
            /\ Len(uout.val) <= Len(uarg)
            /\ LowerTitles(uout.val) = LowerTitles(uarg)

\* C18 witness: of "Ran", "Tex", "RAN" the third was dropped as a duplicate.
C18_Witness ==
    /\ ucall = "dedupe_by_title"
    /\ Len(uarg) = 3
    /\ uarg[1].title = <<"R", "a", "n">> /\ uarg[2].title = <<"T", "e", "x">> /\ uarg[3].title = <<"R", "A", "N">>
    /\ Len(uout.val) = 2

\* extract_extension was applied to "https://x/" + name + ".jpg?a=b"
ExtensionOfJpgUrl(name) == ucall = "extract_extension" /\ uarg = JpgUrl(name)

\* C19 as stated: for any non-empty name, extract_extension("https://x/" +
\* name + ".jpg?a=b") is Some("jpg").
C19_AnyNameGivesJpg ==
    \A name \in UrlNames : ExtensionOfJpgUrl(name) => uout.val = Some(<<"j", "p", "g">>)

(* C19, amended: for any non-empty name that holds neither '?' nor '#',    *)
(* extract_extension("https://x/" + name + ".jpg?a=b") is Some("jpg").     *)
C19_NameWithoutQueryOrFragmentGivesJpg ==
    \A name \in UrlNames :
        (ExtensionOfJpgUrl(name) /\ \A i \in 1..Len(name) : name[i] \notin {"?", "#"})
            => ~uout.panic /\ uout.val = Some(<<"j", "p", "g">>)

\* C19 witness: the name "a.a", with a dot of its own, gave Some("jpg").
C19_Witness ==
    ExtensionOfJpgUrl(<<"a", ".", "a">>) /\ uout.val = Some(<<"j", "p", "g">>)

\* the wait(key) of task t is past its check and chose to sleep
SleepsFor(t, key) ==
    wpc[t] \in {"sleep", "record"} /\ wslept[t] /\ wkey[t] = key

\* a wait(key) call records its time in this step
Records(key) ==
    \E t \in Tasks : wpc[t] = "record" /\ wkey[t] = key /\ wpc'[t] = "idle"

\* a wait(k1) that sleeps found a request of k1 itself less than Delay before
\* its own start, whatever the requests of the other keys
SleepsOnlyForOwnKey ==
    \A t \in Tasks, k1 \in Keys :
        SleepsFor(t, k1) =>
            /\ k1 \in DOMAIN last_request
            /\ last_request[k1] > wnow[t] - Delay

\* a step changes (or adds) the last-request time of a key only when a
\* wait of that very key records it
OnlyOwnKeyRecorded ==
    /\ DOMAIN last_request \subseteq DOMAIN last_request'
    /\ \A k \in DOMAIN last_request' :
           (k \notin DOMAIN last_request \/ last_request'[k] # last_request[k])
               => Records(k)

(* C20: the buckets of the rate limiter are independent per key: a         *)
(* wait(k1) never sleeps because of an earlier or concurrent wait(k2),     *)
(* k2 # k1, and leaves the last-request time of every other key unchanged. *)
C20_BucketsIndependent ==
    []SleepsOnlyForOwnKey /\ [][OnlyOwnKeyRecorded]_vars

\* C20 witness: a wait("mgd") went on without sleeping although a request of
\* "kmg" was recorded less than Delay before it, and "mgd" has no request yet.
C20_Witness ==
    \E t \in Tasks :
        /\ wpc[t] = "record" /\ wkey[t] = "mgd" /\ ~wslept[t]
        /\ "mgd" \notin DOMAIN last_request
        /\ "kmg" \in DOMAIN last_request
        /\ wnow[t] - last_request["kmg"] < Delay

----------------------------------------------------------------------------
(* Properties of the registry.                                             *)

\* the ids of the list are pairwise distinct
Distinct(ids) ==
    \A i, j \in 1..Len(ids) : i # j => ids[i] # ids[j]

\* an add call is the step that changes the registry
AddStep == sources' # sources \/ by_id' # by_id

\* an add appends its id to list_ids() and raises len() by one; nothing else
\* changes them
AddAppends ==
    AddStep => /\ \E id \in AdapterIds : ListIds' = Append(ListIds, id)
               /\ SourcesLen' = SourcesLen + 1

\* with distinct ids: len() counts list_ids(), is_empty() holds iff nothing
\* was added, and get(id) is the adapter with that id iff the id was added
DistinctIdsFound ==
    Distinct(ListIds) =>
        /\ SourcesLen = Len(ListIds)
        /\ SourcesIsEmpty <=> ListIds = <<>>
        /\ \A id \in AdapterIds :
               IF \E i \in 1..Len(ListIds) : ListIds[i] = id
               THEN SourcesGet(id) # 0 /\ ListIds[SourcesGet(id)] = id
               ELSE SourcesGet(id) = 0

(* C21: after add calls with pairwise distinct ids, list_ids() is the      *)
(* added ids in insertion order, len() is the number of adds, is_empty()   *)
(* holds iff nothing was added, and get(id) returns the adapter with that  *)
(* id exactly when the id was added.                                       *)
C21_RegistryOfDistinctIds ==
    /\ ListIds = <<>> /\ SourcesLen = 0
    /\ []DistinctIdsFound
    /\ [][AddAppends]_vars

\* C21 witness: "kmg" then "mgd" were added; get("kmg") is the first adapter,
\* get("mdr") is None.
C21_Witness ==
    /\ ListIds = <<"kmg", "mgd">> /\ SourcesLen = 2 /\ ~SourcesIsEmpty
    /\ SourcesGet("kmg") = 1 /\ SourcesGet("mgd") = 2 /\ SourcesGet("mdr") = 0

\* the positions of the adapters added with this id
AddedAs(id) == {i \in 1..Len(sources) : sources[i] = id}

\* every entry of by_id points at a stored adapter with that id, the one
\* added last, and that is what get(id) returns
LookupPointsAtLatest ==
    /\ DOMAIN by_id = {sources[i] : i \in 1..Len(sources)}
    /\ \A id \in DOMAIN by_id :
           /\ by_id[id] + 1 \in AddedAs(id)
           /\ SourcesGet(id) \in AddedAs(id)
           /\ \A i \in AddedAs(id) : i <= SourcesGet(id)

\* one future per stored adapter, in the order of list_ids(), and group()
\* returns one entry per stored adapter
FanOutCoversAll ==
    /\ call \in {"group", "flat"} =>
           /\ Len(futures) = SourcesLen
           /\ \A i \in 1..Len(futures) : futures[i].source_id = ListIds[i]
    /\ ret.op = "group" =>
           /\ Len(ret.val) = SourcesLen
           /\ \A i \in 1..Len(ret.val) : ret.val[i].source_id = ListIds[i]

(* C29: after any add calls, reused ids included, every by_id entry points *)
(* at a stored adapter with that id and get(id) returns the one added      *)
(* last, while len(), list_ids() and the fan-out of flatten()/group()      *)
(* cover every added adapter, a reused id appearing once per add.          *)
C29_ReusedIdKeepsEveryAdapter ==
    /\ []LookupPointsAtLatest
    /\ []FanOutCoversAll
    /\ [][AddAppends]_vars

\* C29 witness: "mgd" was added twice; get("mgd") is the second adapter, and
\* group() returned two entries, both for "mgd".
C29_Witness ==
    /\ ListIds = <<"mgd", "mgd">> /\ SourcesLen = 2
    /\ SourcesGet("mgd") = 2
    /\ ret.op = "group" /\ Len(ret.val) = 2
    /\ ret.val[1].source_id = "mgd" /\ ret.val[2].source_id = "mgd"

\* dot notation as documented, one step: a member of an object by name, an
\* element of an array by a numeric segment
DotNotationGet(value, key) ==
    IF value.kind = "object"
    THEN IF key \in DOMAIN value.members THEN Some(value.members[key]) ELSE Nothing
    ELSE IF value.kind = "array" /\ ParseU64(key) # None /\ Head(key) # "+"
              /\ ParseU64(key) + 1 \in 1..Len(value.items)
    THEN Some(value.items[ParseU64(key) + 1])
    ELSE Nothing

RECURSIVE DotNotation(_, _)
\* dot notation as documented, along the segments of a path
DotNotation(value, keys) ==
    IF keys = <<>> THEN Some(value)
    ELSE LET next == DotNotationGet(value, Head(keys))
         IN  IF next = Nothing THEN Nothing ELSE DotNotation(next[1], Tail(keys))

\* C22 as stated: extract_path navigates nested objects and arrays by dot
\* notation, a numeric segment selecting the array element at that index, so
\* "data.chapters.0.name" is the name of the first element of the chapters.
C22_DotNotationSelectsArrayElements ==
    ucall = "extract_path" =>
        LET documented == DotNotation(uarg.json, SplitOn(uarg.path, ".", <<>>))
        IN  /\ (uout.val = Nothing) <=> (documented = Nothing)
            /\ uout.val # Nothing => uout.val = documented

----------------------------------------------------------------------------
(* Properties of MangaDex get_pages.                                       *)

\* a fetch that succeeded
FetchedOk == [kind |-> "ok", msg |-> ""]

\* base/quality/hash/f for each f of the list, in order
UrlsUnder(base, quality, hash, filenames) ==
    [i \in 1..Len(filenames) |->
        base \o <<"/">> \o quality \o <<"/">> \o hash \o <<"/">> \o filenames[i]]

\* what get_pages is to return for an at-home response, the page URLs
\* beginning with `base`
PagesFor(response, base, result) ==
    IF response.hash = <<>> \/ response.base_url = <<>>
    THEN ~result.ok /\ result.err.kind = "Parse"
    ELSE IF response.data # <<>>
    THEN result = Ok(UrlsUnder(base, <<"d", "a", "t", "a">>, response.hash, response.data))
    ELSE IF response.data_saver # <<>>
    THEN result = Ok(UrlsUnder(base, <<"d", "a", "t", "a", "-", "s", "a", "v", "e", "r">>, response.hash, response.data_saver))
    ELSE ~result.ok /\ result.err.kind = "NotFound"

\* C23 as stated: Parse when hash or baseUrl is empty; otherwise exactly
\* baseUrl/data/hash/f for each f of data; otherwise
\* baseUrl/data-saver/hash/f for each f of dataSaver; NotFound when both
\* arrays are empty.
C23_PagesUnderBaseUrl ==
    [][\A response \in PagesResponses :
          MangaDexGetPages(FetchedOk, FetchedOk, response)
              => PagesFor(response, response.base_url, aret')]_vars

(* C23, amended: as stated, the page URLs beginning with baseUrl without   *)
(* its trailing '/' characters.                                            *)
C23_PagesUnderTrimmedBaseUrl ==
    [][\A response \in PagesResponses :
          MangaDexGetPages(FetchedOk, FetchedOk, response)
              => PagesFor(response, TrimEndMatches(response.base_url, "/"), aret')]_vars

\* C23 witness: baseUrl "https://u.io/" and data of two files: the two data
\* URLs, in order, after one slash.
C23_Witness ==
    /\ adapter = "mgd" /\ aop = "pages" /\ apc = "done"
    /\ aret = Ok(<<<<"h", "t", "t", "p", "s", ":", "/", "/", "u", ".", "i", "o", "/", "d", "a", "t", "a", "/", "h", "/", "1", ".", "p", "n", "g">>, <<"h", "t", "t", "p", "s", ":", "/", "/", "u", ".", "i", "o", "/", "d", "a", "t", "a", "/", "h", "/", "2", ".", "p", "n", "g">>>>)

----------------------------------------------------------------------------
(* Properties of KissManga's chapter numbers.                              *)

\* what the four patterns capture, in the order of the rules
RuleCaptures(title, id) ==
    <<KeywordNumber(ToLowercase(title), TitleKeywords, "spaces"),
      FirstNumber(ToLowercase(title)),
      KeywordNumber(ToLowercase(id), IdKeywords, "dash"),
      FirstNumber(id)>>

\* the number is the one the first matching rule found; the 1-based index
\* of the anchor when no rule matches
DecidedByFirstMatch(title, id, index, number) ==
    LET caps == RuleCaptures(title, id)
        matching == {k \in 1..4 : caps[k] # Nothing}
        first == CHOOSE k \in matching : \A j \in matching : k <= j
    IN  IF matching = {} THEN number = Finite((index + 1) * 10)
        ELSE ParseF64(caps[first][1]) = Some(number)

\* the anchors of the first selector that yields a chapter
ChapterAnchors(doc) ==
    LET yielding == {s \in 1..Len(doc) : \E i \in 1..Len(doc[s]) : doc[s][i].href # Nothing}
    IN  IF yielding = {} THEN <<>>
        ELSE doc[CHOOSE s \in yielding : \A t \in yielding : s <= t]

\* C24: in KissManga get_chapters the number of a chapter is decided by the
\* first rule that matches: a number after "chapter"/"ch" in the title, any
\* number in the title, a number after "chapter"/"ch" in the id, any number
\* in the id, else the 1-based index; a later rule is used only when every
\* earlier rule finds no match.
C24_NumberByFirstMatchingRule ==
    [][\A m \in AdapterMangaIds, doc \in Documents(KissMangaChapterSelectors) :
          KissMangaGetChapters(m, doc) =>
              LET anchors == ChapterAnchors(doc)
                  kept == SelectIdx([i \in 1..Len(anchors) |-> anchors[i].href # Nothing],
                                    1, {TRUE})
              IN  /\ Len(discovered') = Len(kept)
                  /\ \A k \in 1..Len(kept) :
                         DecidedByFirstMatch(anchors[kept[k]].text, discovered'[k].id,
                                             kept[k] - 1, discovered'[k].number)]_vars

----------------------------------------------------------------------------
(* Properties of sort_by_relevance.                                        *)

\* the metadata quality score with +10 for a description that `described`
\* accepts
QualityScore(manga, described(_)) ==
    (IF manga.description # Nothing /\ described(manga.description[1]) THEN 10 ELSE 0)
    + (IF manga.authors # <<>> THEN 5 ELSE 0)
    + (IF Len(manga.tags) >= 3 THEN 5 ELSE 0)
    + (IF Len(manga.tags) >= 5 THEN 5 ELSE 0)
    + (IF ByteLen(manga.title) <= 20 THEN 15
       ELSE IF ByteLen(manga.title) <= 40 THEN 10 ELSE 5)
    + (IF Contains(manga.title, <<"O", "f", "f", "i", "c", "i", "a", "l">>) \/ Contains(manga.title, <<"C", "o", "l", "o", "r", "e", "d">>)
       THEN 8 ELSE 0)
    + (IF \A i \in 1..Len(manga.title) : manga.title[i] # "U+3042" THEN 3 ELSE 0)

\* a description that is not the empty string
NonEmpty(text) == text # <<>>

\* a description that holds a character that is no whitespace
NonBlank(text) == \E i \in 1..Len(text) : text[i] \notin Whitespace

\* `out` is a permutation of `in` in the order of the score (descending), then
\* of the title length (ascending), the elements equal on both in input order
SortedByQuality(in, out, described(_)) ==
    LET Key(m) == <<QualityScore(m, described), ByteLen(m.title)>>
        SameKey(list, key) == SelectSeq(list, LAMBDA m : Key(m) = key)
    IN  /\ Len(out) = Len(in)
        /\ \A i, j \in 1..Len(out) :
               i < j => \/ Key(out[i])[1] > Key(out[j])[1]
                        \/ /\ Key(out[i])[1] = Key(out[j])[1]
                           /\ Key(out[i])[2] <= Key(out[j])[2]
        /\ \A i \in 1..Len(in) : SameKey(out, Key(in[i])) = SameKey(in, Key(in[i]))

----------------------------------------------------------------------------
(* Properties of AppState.                                                 *)

\* C26: with items_per_page fixed and positive, after any set_total_items,
\* next_page and previous_page calls: current_page < total_pages();
\* current_page_range() = (s, e) has s <= e <= total_items; next_page and
\* previous_page return true exactly when they changed current_page (by +1
\* and -1); set_total_items resets current_page to 0.
C26_PaginationInvariant ==
    /\ ~tret.panic
    /\ ~TotalPages.panic /\ current_page < TotalPages.val
    /\ ~CurrentPageRange.panic
    /\ CurrentPageRange.val[1] <= CurrentPageRange.val[2]
    /\ CurrentPageRange.val[2] <= total_items
    /\ tcall = "next_page" =>
           current_page = IF tret.val THEN page_before + 1 ELSE page_before
    /\ tcall = "previous_page" =>
           current_page = IF tret.val THEN page_before - 1 ELSE page_before
    /\ tcall = "set_total_items" => current_page = 0

----------------------------------------------------------------------------
(* Termination of HttpClient::get.                                         *)

\* a response get retries after, while the counter allows: 429 or a
\* transport error
Retryable(resp) ==
    resp.kind = "transport" \/ (resp.kind = "status" /\ resp.code = 429)

\* one counter for both kinds of failure: it counts the requests that were
\* retried, never exceeds max_retries, and the call has made one request
\* more than it counts when it ends
SharedAttemptCounter ==
    /\ attempts <= max_retries
    /\ Len(requests) <= max_retries + 1
    /\ attempts = Len(hsleeps)
    /\ hpc = "done" =>
           /\ Len(requests) = attempts + 1
           /\ \A i \in 1..(Len(requests) - 1) : Retryable(requests[i])
           /\ Retryable(requests[Len(requests)]) => attempts = max_retries

(* C27: a get call always terminates, having issued at most                *)
(* max_retries + 1 requests, for any interleaving of 429 responses and     *)
(* transport errors: both draw on one attempt counter, and the call ends   *)
(* at the first 2xx, the first other non-2xx status, or with the counter   *)
(* exhausted.                                                              *)
C27_GetTerminatesWithinRetries ==
    /\ []SharedAttemptCounter
    /\ (hpc \in {"wait", "send", "backoff"}) ~> (hpc = "done")

\* C27 witness: with max_retries = 2, a transport error, a 429 and a
\* transport error: three requests, and the call ended with Network.
C27_Witness ==
    /\ hpc = "done" /\ max_retries = 2 /\ Len(requests) = 3
    /\ requests[1].kind = "transport"
    /\ requests[2].kind = "status" /\ requests[2].code = 429
    /\ requests[3].kind = "transport"
    /\ ~hret.ok /\ hret.kind = "Network"

----------------------------------------------------------------------------
(* Termination of MangaDex get_chapters.                                   *)

\* C28: fetch_all_chapters terminates for every sequence of decoded feed
\* responses: after finitely many requests total <= offset + limit holds,
\* whatever total and limit the server reports in each response.
C28_FetchAllChaptersTerminates ==
    (apc \in {"feed", "feed_sent"}) ~> (apc = "done")

----------------------------------------------------------------------------
(* The extension download_chapter infers for a page file.                  *)

\* the pages whose GET was answered 2xx, so that a file name was formed
PagesNamed == {i \in 1..Len(fetched) : fetched[i] = "ok"}

\* C30: for every page URL, the extension download_chapter infers (the
\* text after the last '.' of the URL with the query stripped, when at most
\* 4 characters, else "jpg") contains no '/', so every page file is a
\* direct child of the chapter directory.
C30_ExtensionHasNoSlash ==
    \A i \in PagesNamed :
       LET chapter_dir == ChapterDir(dimpl, chapter_id)
           filepath == PathJoin(chapter_dir, PageFileName(i - 1, pages[i]))
       IN  /\ \A k \in 1..Len(Extension(pages[i])) : Extension(pages[i])[k] # "/"
           /\ Len(filepath) = Len(chapter_dir) + 1


====
